---------------------------- MODULE Spec2Model ----------------------------
(***************************************************************************)
(* DeckBot: record normalisation, batching, upsert dispatch and cascading  *)
(* retrieval (dense + sparse search, merge, rerank).                       *)
(*                                                                         *)
(* Modelling conventions                                                   *)
(*  - A Python dict is a sequence of entries in insertion order.           *)
(*  - A relevance score is a Python float.  The model keeps scores as      *)
(*    integers counted in units of 1/ScoreUnit, ScoreUnit a power of two   *)
(*    large enough that every halving done by the merge is exact.          *)
(*  - An external call (index search, index upsert, rerank) either returns *)
(*    or raises; which one is a nondeterministic choice of the action.     *)
(***************************************************************************)
EXTENDS Integers, Sequences, FiniteSets, TLC

VARIABLES
    \* ---- cascading_search / hybrid_search ----
    query,            \* the caller's query text
    variant,          \* "cascading" (deckbot_unified_index) or "hybrid" (setup_hybrid_search)
    dense_hits,       \* what the dense index returns for the query, if it returns
    sparse_hits,      \* what the sparse index returns for the query, if it returns
    rerank_top_n,     \* the caller's rerank_top_n argument
    stage,            \* position in the search function
    dense_results,    \* local: dense_results['result']['hits']
    sparse_results,   \* local: sparse_results['result']['hits']
    merged,           \* local: merged
    rerank_calls,     \* every call made to pc.inference.rerank
    final_results,    \* the value returned to the caller
    failed_call,      \* the external call that failed ("none" if none did)
    \* ---- process_metadata_file / ingest_pdf_metadata ----
    path,             \* which ingestion entry point runs on the document
    document,         \* the metadata JSON: [deck_metadata, slide_data]
    istage,           \* position in the entry point
    records,          \* local: records
    fallback_warned,  \* the "using generated ID" warning was printed
    invalid_reports,  \* the "Invalid record <id>: <message>" lines printed
    saved_batches,    \* the batch files save_batches wrote, in order
    returned,         \* the value the entry point returned
    \* ---- create_batches / chunk_list ----
    batch_input,      \* the records argument
    batch_size,       \* the batch_size argument
    bstage,           \* "call", "returned" or "raised"
    batches,          \* the returned batch list
    \* ---- upsert_all_batches ----
    batch_files,      \* the content of the sorted batch_*.json files of batch_dir
    dstage,           \* position in upsert_all_batches
    target_idx,       \* loop variable, 1-based
    batch_idx,        \* loop variable, 1-based
    successful_operations,
    failed_operations,
    dispatch_result,  \* the value upsert_all_batches returned
    \* ---- two successive calls of _merge_results on one pair of results ----
    merge_dense0,     \* the dense hit list as the caller built it
    merge_sparse0,    \* the sparse hit list as the caller built it
    merge_dense,      \* the dense hit list object, as it is now
    merge_sparse,     \* the sparse hit list object, as it is now
    merge_stage,      \* "first", "second", "done"
    merge_first,      \* what the first call returned
    merge_second,     \* what the second call returned
    \* ---- one call of a record validator ----
    validator,        \* the script whose validator is called
    candidate,        \* the record passed to it
    vstage,           \* "call" or "returned"
    accepted,         \* whether the validator accepted the record
    \* ---- sanitize_id, applied to a name and then to its own result ----
    san_input,        \* the text argument
    san_stage,        \* "call", "returned" or "again"
    san_output,       \* sanitize_id(text)
    san_again,        \* sanitize_id(sanitize_id(text))
    \* ---- transform_metadata_to_records run on two documents of the corpus ----
    corpus_filenames, \* the filenames of the two documents, in processing order
    corpus_stage,     \* "first", "second" or "done"
    corpus_clock,     \* the second datetime.now() falls in, as a position
    corpus_ids,       \* the pdf_id each document was given, in order
    \* ---- ingest_bulk ----
    bulk_files,       \* the documents of the *_metadata.json files, in glob order
    bulk_idx,         \* the file the loop is at, 1-based
    bulk_stage,       \* "build", "upsert" or "done"
    bulk_records,     \* local of ingest_pdf_metadata: records
    bulk_issued,      \* how many upserts the current ingest_pdf_metadata issued
    ingested,         \* local of ingest_bulk: the doc ids ingested
    failed,           \* local of ingest_bulk: the files that failed
    index_store,      \* what the indexes hold: <<index, namespace, record id>>
    \* ---- pinecone_batch_upsert.process_files ----
    json_files,       \* what load_json_file returns for each file, in order
    chunk_size_arg,   \* the batch_size argument
    save_batches_arg, \* the save_batches argument
    pstage,           \* "idle", "call", "loaded", "validated", "returned", "raised"
    all_records,      \* all_records
    valid_records,    \* valid_records
    process_result,   \* the returned dictionary, or None
    \* ---- the merge on (dense, sparse) and on (sparse, dense) ----
    swap_dense,       \* the dense hit list
    swap_sparse,      \* the sparse hit list
    swap_stage,       \* "idle", "forward", "backward", "done"
    swap_forward,     \* what the merge of (dense, sparse) returned, or None
    swap_backward,    \* what the merge of (sparse, dense) returned, or None
    \* ---- the index service ----
    upsert_calls      \* every upsert_records call issued, in order

searchVars == <<query, variant, dense_hits, sparse_hits, rerank_top_n, stage,
                dense_results, sparse_results, merged, rerank_calls,
                final_results, failed_call>>

ingestVars == <<path, document, istage, records, fallback_warned,
                invalid_reports, saved_batches, returned>>

batchVars == <<batch_input, batch_size, bstage, batches>>

dispatchVars == <<batch_files, dstage, target_idx, batch_idx,
                  successful_operations, failed_operations, dispatch_result>>

mergeVars == <<merge_dense0, merge_sparse0, merge_dense, merge_sparse,
               merge_stage, merge_first, merge_second>>

validateVars == <<validator, candidate, vstage, accepted>>

sanitizeVars == <<san_input, san_stage, san_output, san_again>>

corpusVars ==
    <<corpus_filenames, corpus_stage, corpus_clock, corpus_ids>>

bulkVars ==
    <<bulk_files, bulk_idx, bulk_stage, bulk_records, bulk_issued, ingested,
      failed, index_store>>

prepareVars ==
    <<json_files, chunk_size_arg, save_batches_arg, pstage, all_records,
      valid_records, process_result>>

swapVars ==
    <<swap_dense, swap_sparse, swap_stage, swap_forward, swap_backward>>

vars == <<searchVars, ingestVars, batchVars, dispatchVars, mergeVars,
          validateVars, sanitizeVars, corpusVars, bulkVars, prepareVars,
          swapVars, upsert_calls>>

nonSearchVars ==
    <<ingestVars, batchVars, dispatchVars, mergeVars, validateVars,
      sanitizeVars, corpusVars, bulkVars, prepareVars, swapVars,
      upsert_calls>>
nonIngestVars ==
    <<searchVars, batchVars, dispatchVars, mergeVars, validateVars,
      sanitizeVars, corpusVars, bulkVars, prepareVars, swapVars>>
nonBatchVars ==
    <<searchVars, ingestVars, dispatchVars, mergeVars, validateVars,
      sanitizeVars, corpusVars, bulkVars, prepareVars, swapVars,
      upsert_calls>>
nonDispatchVars ==
    <<searchVars, ingestVars, batchVars, mergeVars, validateVars,
      sanitizeVars, corpusVars, bulkVars, prepareVars, swapVars>>
nonValidateVars ==
    <<searchVars, ingestVars, batchVars, dispatchVars, mergeVars,
      sanitizeVars, corpusVars, bulkVars, prepareVars, swapVars,
      upsert_calls>>
nonSanitizeVars ==
    <<searchVars, ingestVars, batchVars, dispatchVars, mergeVars,
      validateVars, corpusVars, bulkVars, prepareVars, swapVars,
      upsert_calls>>
nonCorpusVars ==
    <<searchVars, ingestVars, batchVars, dispatchVars, mergeVars,
      validateVars, sanitizeVars, bulkVars, prepareVars, swapVars,
      upsert_calls>>
nonBulkVars ==
    <<searchVars, ingestVars, batchVars, dispatchVars, mergeVars,
      validateVars, sanitizeVars, corpusVars, prepareVars, swapVars>>
nonPrepareVars ==
    <<searchVars, ingestVars, batchVars, dispatchVars, mergeVars,
      validateVars, sanitizeVars, corpusVars, bulkVars, swapVars,
      upsert_calls>>
nonSwapVars ==
    <<searchVars, ingestVars, batchVars, dispatchVars, mergeVars,
      validateVars, sanitizeVars, corpusVars, bulkVars, prepareVars,
      upsert_calls>>
nonMergeVars ==
    <<searchVars, ingestVars, batchVars, dispatchVars, validateVars,
      sanitizeVars, corpusVars, bulkVars, prepareVars, swapVars,
      upsert_calls>>

----------------------------------------------------------------------------
(* Bounds of the model *)

MaxHits == 2
MaxTopN == 3
MaxSlides == 2
MaxRecords == 98
MaxBatchSizeArg == 3
MaxBatchFiles == 2
MaxNameLen == 3
MaxBulkFiles == 2
MaxJsonFiles == 2

Ids == {"a", "b"}
InputScores == {1, 2}

RECURSIVE Pow2(_)
Pow2(n) == IF n = 0 THEN 1 ELSE 2 * Pow2(n - 1)

\* One input score unit, in model units: MaxHits halvings stay exact.
ScoreUnit == Pow2(MaxHits)

\* A local variable that is not bound yet is None; once bound it is Some(value).
None == <<>>
Some(v) == <<v>>
IsSome(x) == Len(x) = 1
Val(x) == x[1]

----------------------------------------------------------------------------
(* Generic helpers *)

Min(a, b) == IF a <= b THEN a ELSE b

SeqsUpTo(S, n) == UNION {[1..k -> S] : k \in 0..n}

Range(s) == {s[i] : i \in 1..Len(s)}

----------------------------------------------------------------------------
(* Text.  A Python str is a sequence of tokens; a token is one character or  *)
(* an opaque piece of text that no operation looks into.  "" is <<>>.        *)

AsciiLower == <<"a", "b", "c", "d", "e", "f", "g", "h", "i", "j", "k", "l", "m",
                "n", "o", "p", "q", "r", "s", "t", "u", "v", "w", "x", "y", "z">>
AsciiUpper == <<"A", "B", "C", "D", "E", "F", "G", "H", "I", "J", "K", "L", "M",
                "N", "O", "P", "Q", "R", "S", "T", "U", "V", "W", "X", "Y", "Z">>
DigitChars == <<"0", "1", "2", "3", "4", "5", "6", "7", "8", "9">>

\* One non-ASCII letter (a Hangul syllable), as a single character.
Hangul == "<hangul>"

\* c.isascii()
IsAscii(c) == c # Hangul

\* c.isalnum()
IsAlnum(c) == c \in Range(AsciiLower) \cup Range(AsciiUpper) \cup Range(DigitChars)
                      \cup {Hangul}

\* c.lower(), for one character
LowerChar(c) ==
    IF c \in Range(AsciiUpper)
    THEN AsciiLower[CHOOSE i \in 1..Len(AsciiUpper) : AsciiUpper[i] = c]
    ELSE c

\* s.lower()
Lower(s) == [i \in 1..Len(s) |-> LowerChar(s[i])]

\* s.endswith(suffix)
EndsWith(s, suffix) ==
    /\ Len(s) >= Len(suffix)
    /\ SubSeq(s, Len(s) - Len(suffix) + 1, Len(s)) = suffix

\* s.replace(old, new), old a single character
RECURSIVE ReplaceChar(_, _, _)
ReplaceChar(s, old, new) ==
    IF s = <<>> THEN <<>>
    ELSE (IF Head(s) = old THEN new ELSE <<Head(s)>>)
             \o ReplaceChar(Tail(s), old, new)

\* '__' in s
HasDoubleUnderscore(s) == \E i \in 1..(Len(s) - 1) : s[i] = "_" /\ s[i + 1] = "_"

\* s.replace('__', '_'): non-overlapping occurrences, left to right
RECURSIVE ReplaceDoubleUnderscore(_)
ReplaceDoubleUnderscore(s) ==
    IF Len(s) < 2 THEN s
    ELSE IF s[1] = "_" /\ s[2] = "_"
         THEN <<"_">> \o ReplaceDoubleUnderscore(SubSeq(s, 3, Len(s)))
         ELSE <<s[1]>> \o ReplaceDoubleUnderscore(Tail(s))

\* while '__' in clean: clean = clean.replace('__', '_')
RECURSIVE CollapseUnderscores(_)
CollapseUnderscores(s) ==
    IF HasDoubleUnderscore(s) THEN CollapseUnderscores(ReplaceDoubleUnderscore(s))
    ELSE s

\* s.lstrip(chars) and s.rstrip(chars), chars a set of characters
RECURSIVE LStrip(_, _)
LStrip(s, chars) ==
    IF s # <<>> /\ Head(s) \in chars THEN LStrip(Tail(s), chars) ELSE s

RECURSIVE RStrip(_, _)
RStrip(s, chars) ==
    IF s # <<>> /\ s[Len(s)] \in chars
    THEN RStrip(SubSeq(s, 1, Len(s) - 1), chars) ELSE s

Strip(s, chars) == RStrip(LStrip(s, chars), chars)

Whitespace == {" ", "\n", "\t"}

\* sep.join(parts)
RECURSIVE Join(_, _)
Join(sep, parts) ==
    IF parts = <<>> THEN <<>>
    ELSE IF Len(parts) = 1 THEN parts[1]
    ELSE parts[1] \o sep \o Join(sep, Tail(parts))

RECURSIVE DecimalDigits(_)
DecimalDigits(n) ==
    IF n < 10 THEN <<DigitChars[n + 1]>>
    ELSE DecimalDigits(n \div 10) \o <<DigitChars[(n % 10) + 1]>>

\* f"{n:03d}", n >= 0
\* A format without the zero padding.
PadNone(n) == DecimalDigits(n)

\* f"{n:03d}"
Pad3(n) ==
    LET ds == DecimalDigits(n)
    IN  [i \in 1..(IF Len(ds) < 3 THEN 3 - Len(ds) ELSE 0) |-> "0"] \o ds

\* d.get(key, default)
Get(d, key, default) == IF key \in DOMAIN d THEN d[key] ELSE default

\* bool(text): a missing value (None) and the empty str / list are falsy
Truthy(v) == v # <<>>

----------------------------------------------------------------------------
(* sanitize_id *)

\* A sanitizer that collapses the underscores before it replaces the
\* characters that are not ASCII alphanumeric.
sanitize_id_collapse_first(text) ==
    LET t0 == IF EndsWith(text, <<".", "p", "d", "f">>)
              THEN SubSeq(text, 1, Len(text) - 4) ELSE text
        c1 == ReplaceChar(ReplaceChar(ReplaceChar(t0, " ", <<"_">>), "(", <<>>),
                          ")", <<>>)
        c2 == ReplaceChar(ReplaceChar(ReplaceChar(c1, "[", <<>>), "]", <<>>),
                          "-", <<"_">>)
        c3 == CollapseUnderscores(c2)
        c4 == [i \in 1..Len(c3) |->
                 IF IsAscii(c3[i]) /\ (IsAlnum(c3[i]) \/ c3[i] = "_")
                 THEN c3[i] ELSE "_"]
    IN  Lower(Strip(c4, {"_"}))

\* A sanitizer that leaves the underscores at both ends in place.
sanitize_id_unstripped(text) ==
    LET t0 == IF EndsWith(text, <<".", "p", "d", "f">>)
              THEN SubSeq(text, 1, Len(text) - 4) ELSE text
        c1 == ReplaceChar(ReplaceChar(ReplaceChar(t0, " ", <<"_">>), "(", <<>>),
                          ")", <<>>)
        c2 == ReplaceChar(ReplaceChar(ReplaceChar(c1, "[", <<>>), "]", <<>>),
                          "-", <<"_">>)
        c3 == [i \in 1..Len(c2) |->
                 IF IsAscii(c2[i]) /\ (IsAlnum(c2[i]) \/ c2[i] = "_")
                 THEN c2[i] ELSE "_"]
        c4 == CollapseUnderscores(c3)
    IN  Lower(c4)

\* sanitize_id
sanitize_id(text) ==
    LET t0 == IF EndsWith(text, <<".", "p", "d", "f">>)
              THEN SubSeq(text, 1, Len(text) - 4) ELSE text
        c1 == ReplaceChar(ReplaceChar(ReplaceChar(t0, " ", <<"_">>), "(", <<>>),
                          ")", <<>>)
        c2 == ReplaceChar(ReplaceChar(ReplaceChar(c1, "[", <<>>), "]", <<>>),
                          "-", <<"_">>)
        c3 == [i \in 1..Len(c2) |->
                 IF IsAscii(c2[i]) /\ (IsAlnum(c2[i]) \/ c2[i] = "_")
                 THEN c2[i] ELSE "_"]
        c4 == CollapseUnderscores(c3)
    IN  Lower(Strip(c4, {"_"}))

----------------------------------------------------------------------------
(* Record building: transform_to_pinecone_format.py *)

MAX_BATCH_SIZE == 96

DENSE_INDEX == "deckbot-dense-korean"
SPARSE_INDEX == "deckbot-sparse-korean"
GLOBAL_NAMESPACE == <<"global">>

\* f"doc:{pdf_id}"
DocNamespace(pdf_id) == <<"doc:">> \o pdf_id

\* build_deck_content
\* A deck content that leaves out the line of an omitted or empty field.
build_deck_content_skip_empty(deck_meta) ==
    LET line(label, key) ==
            IF Truthy(Get(deck_meta, key, <<>>))
            THEN << <<label>> \o Get(deck_meta, key, <<>>) >> ELSE <<>>
    IN  Join(<<"\n">>,
             line("Filename: ", "filename") \o line("Industry: ", "deck_industry")
                \o line("Company: ", "company_name")
                \o line("Executive Summary: ", "executive_summary"))

build_deck_content(deck_meta) ==
    Join(<<"\n">>,
         << <<"Filename: ">> \o Get(deck_meta, "filename", <<>>),
            <<"Industry: ">> \o Get(deck_meta, "deck_industry", <<>>),
            <<"Company: ">> \o Get(deck_meta, "company_name", <<>>),
            <<"Executive Summary: ">> \o Get(deck_meta, "executive_summary", <<>>) >>)

\* build_slide_content
build_slide_content(slide) ==
    LET p1 == IF Truthy(Get(slide, "slide_content", <<>>))
              THEN << <<"Content: ">> \o slide.slide_content >> ELSE <<>>
        p2 == IF Truthy(Get(slide, "slide_summary", <<>>))
              THEN << <<"Summary: ">> \o slide.slide_summary >> ELSE <<>>
        p3 == IF Truthy(Get(slide, "keywords", <<>>))
              THEN << <<"Keywords: ">> \o Join(<<", ">>, slide.keywords) >> ELSE <<>>
        p4 == IF Truthy(Get(slide, "slide_layout", <<>>))
              THEN << <<"Layout: ">> \o slide.slide_layout >> ELSE <<>>
    IN  Join(<<"\n">>, p1 \o p2 \o p3 \o p4)

\* The deck record of transform_metadata_to_records.  total_pages, created_date
\* and pdf_url are copied through unread and are left out.
DeckRecord(pdf_id, deck_meta) ==
    [_id |-> pdf_id \o <<"_meta">>,
     content |-> build_deck_content(deck_meta),
     type |-> "deck_metadata",
     pdf_id |-> pdf_id,
     pdf_filename |-> deck_meta.filename,
     company |-> Get(deck_meta, "company_name", <<>>),
     industry |-> Get(deck_meta, "deck_industry", <<>>)]

\* A slide record whose id leaves the slide number out.
SlideRecordUnnumbered(pdf_id, deck_meta, slide) ==
    [_id |-> pdf_id \o <<"_slide_">>,
     content |-> build_slide_content(slide),
     type |-> "slide",
     pdf_id |-> pdf_id,
     pdf_filename |-> deck_meta.filename,
     company |-> Get(deck_meta, "company_name", <<>>),
     industry |-> Get(deck_meta, "deck_industry", <<>>),
     slide_number |-> slide.slide_number,
     keywords |-> Join(<<", ">>, Get(slide, "keywords", <<>>)),
     slide_layout |-> Get(slide, "slide_layout", <<>>)]

\* One slide record of transform_metadata_to_records (image_url left out).
SlideRecord(pdf_id, deck_meta, slide) ==
    [_id |-> pdf_id \o <<"_slide_">> \o Pad3(slide.slide_number),
     content |-> build_slide_content(slide),
     type |-> "slide",
     pdf_id |-> pdf_id,
     pdf_filename |-> deck_meta.filename,
     company |-> Get(deck_meta, "company_name", <<>>),
     industry |-> Get(deck_meta, "deck_industry", <<>>),
     slide_number |-> slide.slide_number,
     keywords |-> Join(<<", ">>, Get(slide, "keywords", <<>>)),
     slide_layout |-> Get(slide, "slide_layout", <<>>)]

\* slide['slide_number'] raises KeyError for a slide without the key
LacksSlideNumber(slides) ==
    \E i \in 1..Len(slides) : "slide_number" \notin DOMAIN slides[i]

\* if not pdf_id or pdf_id == '_'
\* A builder that never takes the fallback.
NeverNeedsFallbackId(pdf_id) == FALSE

\* if not pdf_id or pdf_id == '_'
NeedsFallbackId(pdf_id) == pdf_id = <<>> \/ pdf_id = <<"_">>

\* pdf_id = sanitize_id(filename), or f"doc_{now:%Y%m%d_%H%M%S}"
PdfIdOf(filename, now) ==
    IF NeedsFallbackId(sanitize_id(filename)) THEN <<"doc_", now>>
    ELSE sanitize_id(filename)

\* The record list transform_metadata_to_records returns when no slide lacks
\* its slide_number.
TransformRecords(doc, now) ==
    LET pdf_id == PdfIdOf(doc.deck_metadata.filename, now)
    IN  <<DeckRecord(pdf_id, doc.deck_metadata)>> \o
        [i \in 1..Len(doc.slide_data) |->
            SlideRecord(pdf_id, doc.deck_metadata, doc.slide_data[i])]

\* validate_record: <<is_valid, message>>
validate_record(record) ==
    IF "_id" \notin DOMAIN record THEN <<FALSE, "Missing '_id' field">>
    ELSE IF "content" \notin DOMAIN record THEN <<FALSE, "Missing 'content' field">>
    ELSE IF ~Truthy(record.content) THEN <<FALSE, "Invalid or empty 'content' field">>
    ELSE IF Len(Strip(record.content, Whitespace)) = 0
         THEN <<FALSE, "Empty 'content' field">>
    ELSE <<TRUE, "Valid">>

\* for i in range(0, len(records), batch_size): batches.append(records[i:i + batch_size])
RECURSIVE BatchesFrom(_, _, _)
BatchesFrom(recs, i, size) ==
    IF i >= Len(recs) THEN <<>>
    ELSE <<SubSeq(recs, i + 1, Min(i + size, Len(recs)))>>
             \o BatchesFrom(recs, i + size, size)

\* range() raises ValueError for a step of zero
CreateBatchesRaises(size) == size = 0

\* A batcher that drops a trailing partial batch.
create_batches_full_only(recs, size) ==
    IF size < 0 THEN <<>>
    ELSE SubSeq(BatchesFrom(recs, 0, size), 1, Len(recs) \div size)

\* create_batches (and chunk_list); a negative step makes the range empty
create_batches(recs, size) ==
    IF size < 0 THEN <<>> ELSE BatchesFrom(recs, 0, size)

----------------------------------------------------------------------------
(* Record building: deckbot_unified_index.py *)

\* Path(pdf_filename).stem, for a filename without directory part
Stem(name) ==
    LET dots == {i \in 2..(Len(name) - 1) : name[i] = "."}
    IN  IF dots = {} THEN name
        ELSE SubSeq(name, 1, (CHOOSE i \in dots : \A j \in dots : j <= i) - 1)

\* DeckBotIndexManager._build_deck_content
unified_build_deck_content(deck_meta) ==
    Join(<<"\n">>,
         << <<"Filename: ">> \o Get(deck_meta, "filename", <<>>),
            <<"Industry: ">> \o Get(deck_meta, "deck_industry", <<>>),
            <<"Company: ">> \o Get(deck_meta, "company_name", <<>>),
            <<"Summary: ">> \o Get(deck_meta, "executive_summary", <<>>) >>)

\* DeckBotIndexManager._build_slide_content
unified_build_slide_content(slide) ==
    LET p1 == IF Truthy(Get(slide, "slide_content", <<>>))
              THEN << <<"Content: ">> \o slide.slide_content >> ELSE <<>>
        p2 == IF Truthy(Get(slide, "slide_summary", <<>>))
              THEN << <<"Summary: ">> \o slide.slide_summary >> ELSE <<>>
    IN  IF p1 \o p2 # <<>> THEN Join(<<"\n">>, p1 \o p2)
        ELSE Get(slide, "slide_summary", <<>>)

\* The records ingest_pdf_metadata builds when no slide lacks its slide_number
\* (total_pages, created_date and image_url left out).
UnifiedRecords(doc) ==
    LET deck_meta == doc.deck_metadata
        doc_id == Stem(deck_meta.filename)
    IN  << [_id |-> doc_id \o <<"_meta">>,
            content |-> unified_build_deck_content(deck_meta),
            type |-> "deck_metadata",
            pdf_id |-> doc_id,
            pdf_title |-> deck_meta.filename,
            company |-> Get(deck_meta, "company_name", <<>>),
            industry |-> Get(deck_meta, "deck_industry", <<>>)] >> \o
        [i \in 1..Len(doc.slide_data) |->
            LET slide == doc.slide_data[i]
            IN  [_id |-> doc_id \o <<"_slide_">> \o Pad3(slide.slide_number),
                 content |-> unified_build_slide_content(slide),
                 type |-> "slide",
                 pdf_id |-> doc_id,
                 pdf_title |-> deck_meta.filename,
                 company |-> Get(deck_meta, "company_name", <<>>),
                 industry |-> Get(deck_meta, "deck_industry", <<>>),
                 slide_number |-> slide.slide_number,
                 keywords |-> Join(<<", ">>, Get(slide, "keywords", <<>>)),
                 layout |-> Get(slide, "slide_layout", <<>>)]]

----------------------------------------------------------------------------
(* Hits, as an index search returns them *)

Hit(id, score, origin) ==
    [_id |-> id, _score |-> score * ScoreUnit, content |-> origin, attrs |-> origin]

HitLists(origin) ==
    { [i \in 1..Len(s) |-> Hit(s[i][1], s[i][2], origin)] :
        s \in SeqsUpTo(Ids \X InputScores, MaxHits) }

\* The end-to-end example: scores 0.9, 0.5, 0.7 and 0.8 in tenths.
ExampleDenseHits == <<Hit("a", 9, "dense"), Hit("b", 5, "dense")>>

ExampleSparseHits == <<Hit("a", 7, "sparse"), Hit("c", 8, "sparse")>>

----------------------------------------------------------------------------
(* _merge_results / merge_results *)

HasKey(hits, id) == \E i \in 1..Len(hits) : hits[i]._id = id

KeyIndex(hits, id) == CHOOSE i \in 1..Len(hits) : hits[i]._id = id

\* hits[id] = doc
DictSet(hits, id, doc) ==
    IF HasKey(hits, id)
    THEN [hits EXCEPT ![KeyIndex(hits, id)] = doc]
    ELSE Append(hits, doc)

\* doc = {'_id': ..., 'content': ..., '_score': ...} plus the hit's other fields
DocOf(hit) ==
    [_id |-> hit._id, content |-> hit.content, _score |-> hit._score,
     attrs |-> hit.attrs]

\* A fusion that weights the dense score three to one.
MeanDenseWeighted(x, y) == (3 * x + y) \div 4

MeanWrong(x, y) == IF x >= y THEN x ELSE y

\* (x + y) / 2
Mean(x, y) == (x + y) \div 2

RECURSIVE AddDense(_, _)
AddDense(hits, ds) ==
    IF ds = <<>> THEN hits
    ELSE AddDense(DictSet(hits, Head(ds)._id, DocOf(Head(ds))), Tail(ds))

FoldSparseHitNoDedup(hits, hit) == Append(hits, DocOf(hit))

\* A merge that lets the sparse hit replace the result, score averaged.
FoldSparseHitOverwrite(hits, hit) ==
    IF HasKey(hits, hit._id)
    THEN LET i == KeyIndex(hits, hit._id)
         IN  [hits EXCEPT ![i] = [DocOf(hit) EXCEPT
                  !._score = Mean(hits[i]._score, hit._score)]]
    ELSE DictSet(hits, hit._id, DocOf(hit))

\* if hit['_id'] in hits: average the score; else: insert the sparse hit
FoldSparseHit(hits, hit) ==
    IF HasKey(hits, hit._id)
    THEN LET i == KeyIndex(hits, hit._id)
         IN  [hits EXCEPT ![i]._score = Mean(hits[i]._score, hit._score)]
    ELSE DictSet(hits, hit._id, DocOf(hit))

RECURSIVE FoldSparse(_, _)
FoldSparse(hits, ss) ==
    IF ss = <<>> THEN hits
    ELSE FoldSparse(FoldSparseHit(hits, Head(ss)), Tail(ss))

\* A sort that puts the later of two equal keys first.
RECURSIVE InsertDescUnstable(_, _)
InsertDescUnstable(sorted, x) ==
    IF sorted = <<>> THEN <<x>>
    ELSE IF Head(sorted)._score > x._score
         THEN <<Head(sorted)>> \o InsertDescUnstable(Tail(sorted), x)
         ELSE <<x>> \o sorted

\* Python's sorted(..., reverse=True) is stable: equal keys keep their order.
RECURSIVE InsertDesc(_, _)
InsertDesc(sorted, x) ==
    IF sorted = <<>> THEN <<x>>
    ELSE IF Head(sorted)._score >= x._score
         THEN <<Head(sorted)>> \o InsertDesc(Tail(sorted), x)
         ELSE <<x>> \o sorted

RECURSIVE SortedByScoreDesc(_)
SortedByScoreDesc(s) ==
    IF s = <<>> THEN <<>>
    ELSE InsertDesc(SortedByScoreDesc(SubSeq(s, 1, Len(s) - 1)), s[Len(s)])

MergeResults(ds, ss) == SortedByScoreDesc(FoldSparse(AddDense(<<>>, ds), ss))

----------------------------------------------------------------------------
(* sanitize_id, called on a name and once more on what it returned *)

\* The characters names are made of: a lower-case and an upper-case letter, a
\* digit, the characters the function names, a tab, a dot and a non-ASCII
\* character.
NameChars == {"a", "B", "1", " ", "(", ")", "[", "-", "_", "\t", ".", Hangul}

PdfSuffix == <<".", "p", "d", "f">>

\* Longer names: the extension twice, a non-ASCII character next to a space.
LongNames ==
    { <<"a">> \o PdfSuffix \o PdfSuffix,
      <<"B", Hangul, " ", "1">> \o PdfSuffix,
      <<"B", "(", Hangul, ")", " ", "-", " ", "1">> }

\* Names of up to MaxNameLen characters, with and without the extension, and
\* the longer names.
SanitizeInputs ==
    LET stems == SeqsUpTo(NameChars, MaxNameLen)
    IN  stems \cup {n \o PdfSuffix : n \in stems} \cup LongNames

SanitizeInit ==
    /\ san_input \in SanitizeInputs
    /\ san_stage = "call"
    /\ san_output = None
    /\ san_again = None

SanitizeIdle ==
    /\ san_input = <<>>
    /\ san_stage = "idle"
    /\ san_output = None
    /\ san_again = None

\* pdf_id = sanitize_id(filename)
SanitizeReturns ==
    /\ san_stage = "call"
    /\ san_output' = Some(sanitize_id(san_input))
    /\ san_stage' = "returned"
    /\ UNCHANGED <<san_input, san_again>>
    /\ UNCHANGED nonSanitizeVars

\* sanitize_id applied to the id it returned
SanitizeAgainReturns ==
    /\ san_stage = "returned"
    /\ san_again' = Some(sanitize_id(Val(san_output)))
    /\ san_stage' = "again"
    /\ UNCHANGED <<san_input, san_output>>
    /\ UNCHANGED nonSanitizeVars

SanitizeNext ==
    \/ SanitizeReturns
    \/ SanitizeAgainReturns

----------------------------------------------------------------------------
(* The pdf_id of two documents processed one after the other *)

\* The seconds the clock goes through while the two documents are processed.
ClockTicks == <<"20250101_000000", "20250101_000001">>

\* Filenames of the corpus: up to two characters and the extension.
CorpusNameChars == {"a", "B", "b", "1", " ", "(", "-", Hangul}

CorpusFilenames ==
    {n \o PdfSuffix : n \in SeqsUpTo(CorpusNameChars, 2) \ {<<>>}}

CorpusInit ==
    /\ corpus_filenames \in
          {<<f, g>> : f \in CorpusFilenames, g \in CorpusFilenames}
    /\ corpus_stage = "first"
    /\ corpus_clock = 1
    /\ corpus_ids = <<>>

CorpusIdle ==
    /\ corpus_filenames = <<>>
    /\ corpus_stage = "idle"
    /\ corpus_clock = 0
    /\ corpus_ids = <<>>

\* pdf_id = sanitize_id(filename), or the timestamp id, for the first document
CorpusFirstDocument ==
    /\ corpus_stage = "first"
    /\ corpus_ids' =
          <<PdfIdOf(corpus_filenames[1], ClockTicks[corpus_clock])>>
    /\ corpus_stage' = "second"
    /\ UNCHANGED <<corpus_filenames, corpus_clock>>
    /\ UNCHANGED nonCorpusVars

\* The clock reaches the next second before the second document is processed.
CorpusClockTicks ==
    /\ corpus_stage = "second"
    /\ corpus_clock < Len(ClockTicks)
    /\ corpus_clock' = corpus_clock + 1
    /\ UNCHANGED <<corpus_filenames, corpus_stage, corpus_ids>>
    /\ UNCHANGED nonCorpusVars

\* The same for the second document.
CorpusSecondDocument ==
    /\ corpus_stage = "second"
    /\ corpus_ids' =
          Append(corpus_ids,
                 PdfIdOf(corpus_filenames[2], ClockTicks[corpus_clock]))
    /\ corpus_stage' = "done"
    /\ UNCHANGED <<corpus_filenames, corpus_clock>>
    /\ UNCHANGED nonCorpusVars

CorpusNext ==
    \/ CorpusFirstDocument
    \/ CorpusClockTicks
    \/ CorpusSecondDocument

----------------------------------------------------------------------------
(* The record validators, each called on one record *)

\* pinecone_batch_upsert.validate_record
batch_upsert_validate_record(record) ==
    IF "id" \notin DOMAIN record THEN FALSE
    ELSE IF "content" \notin DOMAIN record THEN FALSE
    ELSE IF ~Truthy(Get(record, "content", <<>>)) THEN FALSE
    ELSE TRUE

\* The errors TransformationValidator.validate_pinecone_records appends for
\* one record.
pinecone_record_errors(record) ==
    LET required_fields == {"_id", "content", "type", "pdf_id", "pdf_title",
                            "company", "industry"}
    IN  (IF required_fields \ DOMAIN record # {}
         THEN <<"Missing required fields">> ELSE <<>>)
        \o (IF ~Truthy(Get(record, "_id", <<>>))
            THEN <<"Empty _id">> ELSE <<>>)
        \o (IF ~Truthy(Get(record, "content", <<>>))
            THEN <<"content must be non-empty string">> ELSE <<>>)
        \o (IF Get(record, "type", "") \notin {"deck_metadata", "slide"}
            THEN <<"type must be 'deck_metadata' or 'slide'">> ELSE <<>>)
        \o (IF Get(record, "type", "") = "slide"
            THEN (IF "slide_number" \notin DOMAIN record
                  THEN <<"slide missing slide_number">> ELSE <<>>)
                 \o (IF "keywords" \notin DOMAIN record
                     THEN <<"slide missing keywords">> ELSE <<>>)
            ELSE <<>>)

Validators ==
    {"transform_to_pinecone_format", "pinecone_batch_upsert",
     "validate_transformation"}

\* A field that is absent (None) or present with a value (Some).
Field(key, option) == IF IsSome(option) THEN key :> Val(option) ELSE <<>>

\* The records a validator may be handed.
CandidateRecords ==
    { Field("_id", id1) @@ Field("id", id2) @@ Field("content", content)
        @@ Field("type", type) @@ Field("slide_number", number)
        @@ Field("keywords", keywords) @@ rest :
        id1 \in {None, Some(<<>>), Some(<<"d", "_", "s", "1">>)},
        id2 \in {None, Some(<<"d", "_", "s", "1">>)},
        content \in {None, Some(<<>>), Some(<<" ", "\n">>), Some(<<"t", "x", "t">>)},
        type \in {None, Some("deck_metadata"), Some("slide"), Some("other")},
        number \in {None, Some(1)},
        keywords \in {None, Some(<<"k">>)},
        rest \in {<<>>,
                  [pdf_id |-> <<"d">>, company |-> <<"c">>, industry |-> <<"i">>],
                  [pdf_id |-> <<"d">>, pdf_title |-> <<"t">>,
                   company |-> <<"c">>, industry |-> <<"i">>]} }

ValidateInit ==
    /\ validator \in Validators
    /\ candidate \in CandidateRecords
    /\ vstage = "call"
    /\ accepted = None

ValidateIdle ==
    /\ validator = "none"
    /\ candidate = <<>>
    /\ vstage = "idle"
    /\ accepted = None

\* transform_to_pinecone_format.validate_record(record)
TransformValidatorReturns ==
    /\ vstage = "call"
    /\ validator = "transform_to_pinecone_format"
    /\ accepted' = Some(validate_record(candidate)[1])
    /\ vstage' = "returned"
    /\ UNCHANGED <<validator, candidate>>
    /\ UNCHANGED nonValidateVars

\* pinecone_batch_upsert.validate_record(record)
BatchUpsertValidatorReturns ==
    /\ vstage = "call"
    /\ validator = "pinecone_batch_upsert"
    /\ accepted' = Some(batch_upsert_validate_record(candidate))
    /\ vstage' = "returned"
    /\ UNCHANGED <<validator, candidate>>
    /\ UNCHANGED nonValidateVars

\* TransformationValidator.validate_pinecone_records([record])
PineconeRecordsValidatorReturns ==
    /\ vstage = "call"
    /\ validator = "validate_transformation"
    /\ accepted' = Some(pinecone_record_errors(candidate) = <<>>)
    /\ vstage' = "returned"
    /\ UNCHANGED <<validator, candidate>>
    /\ UNCHANGED nonValidateVars

ValidateNext ==
    \/ TransformValidatorReturns
    \/ BatchUpsertValidatorReturns
    \/ PineconeRecordsValidatorReturns

----------------------------------------------------------------------------
(* _merge_results called twice on the same pair of search results *)

\* A merge that puts the dense hit objects themselves into the id map, so that
\* averaging writes the fused score into the caller's dense hits.
DenseHitsAliased(ds, ss) ==
    LET m == MergeResults(ds, ss)
    IN  [i \in 1..Len(ds) |->
            [ds[i] EXCEPT !._score = m[KeyIndex(m, ds[i]._id)]._score]]

\* The dense hit list after a merge: doc is a new dict for every hit and only
\* doc is written to, the hit objects are left as they were.
DenseHitsAfterMerge(ds, ss) == ds

\* The sparse hit list after a merge: the hits are only read.
SparseHitsAfterMerge(ds, ss) == ss

MergeInit ==
    /\ merge_dense0 \in HitLists("dense") \cup {ExampleDenseHits}
    /\ merge_sparse0 \in HitLists("sparse") \cup {ExampleSparseHits}
    /\ merge_dense = merge_dense0
    /\ merge_sparse = merge_sparse0
    /\ merge_stage = "first"
    /\ merge_first = None
    /\ merge_second = None

MergeIdle ==
    /\ merge_dense0 = <<>>
    /\ merge_sparse0 = <<>>
    /\ merge_dense = <<>>
    /\ merge_sparse = <<>>
    /\ merge_stage = "idle"
    /\ merge_first = None
    /\ merge_second = None

MergeFirstCall ==
    /\ merge_stage = "first"
    /\ merge_first' = Some(MergeResults(merge_dense, merge_sparse))
    /\ merge_dense' = DenseHitsAfterMerge(merge_dense, merge_sparse)
    /\ merge_sparse' = SparseHitsAfterMerge(merge_dense, merge_sparse)
    /\ merge_stage' = "second"
    /\ UNCHANGED <<merge_dense0, merge_sparse0, merge_second>>
    /\ UNCHANGED nonMergeVars

MergeSecondCall ==
    /\ merge_stage = "second"
    /\ merge_second' = Some(MergeResults(merge_dense, merge_sparse))
    /\ merge_dense' = DenseHitsAfterMerge(merge_dense, merge_sparse)
    /\ merge_sparse' = SparseHitsAfterMerge(merge_dense, merge_sparse)
    /\ merge_stage' = "done"
    /\ UNCHANGED <<merge_dense0, merge_sparse0, merge_first>>
    /\ UNCHANGED nonMergeVars

MergeNext ==
    \/ MergeFirstCall
    \/ MergeSecondCall

----------------------------------------------------------------------------
(* The merge called on a pair of search results and on the swapped pair *)

SwapInit ==
    /\ swap_dense \in HitLists("dense") \cup {ExampleDenseHits}
    /\ swap_sparse \in HitLists("sparse") \cup {ExampleSparseHits}
    /\ swap_stage = "forward"
    /\ swap_forward = None
    /\ swap_backward = None

SwapIdle ==
    /\ swap_dense = <<>>
    /\ swap_sparse = <<>>
    /\ swap_stage = "idle"
    /\ swap_forward = None
    /\ swap_backward = None

\* _merge_results(dense_results, sparse_results)
SwapForwardCall ==
    /\ swap_stage = "forward"
    /\ swap_forward' = Some(MergeResults(swap_dense, swap_sparse))
    /\ swap_stage' = "backward"
    /\ UNCHANGED <<swap_dense, swap_sparse, swap_backward>>
    /\ UNCHANGED nonSwapVars

\* _merge_results(sparse_results, dense_results)
SwapBackwardCall ==
    /\ swap_stage = "backward"
    /\ swap_backward' = Some(MergeResults(swap_sparse, swap_dense))
    /\ swap_stage' = "done"
    /\ UNCHANGED <<swap_dense, swap_sparse, swap_forward>>
    /\ UNCHANGED nonSwapVars

SwapNext ==
    \/ SwapForwardCall
    \/ SwapBackwardCall

----------------------------------------------------------------------------
(* cascading_search / hybrid_search *)

\* The query texts a caller may pass.
Queries == {"q1", "q2"}

SearchInit ==
    /\ query \in Queries
    /\ variant \in {"cascading", "hybrid"}
    /\ dense_hits \in HitLists("dense") \cup {ExampleDenseHits}
    /\ sparse_hits \in HitLists("sparse") \cup {ExampleSparseHits}
    /\ rerank_top_n \in 1..MaxTopN
    /\ stage = "dense_search"
    /\ dense_results = None
    /\ sparse_results = None
    /\ merged = None
    /\ rerank_calls = <<>>
    /\ final_results = None
    /\ failed_call = "none"

\* A search that swallows the failure and goes on with no dense hits.
DenseSearchSwallowed ==
    /\ stage = "dense_search"
    /\ stage' = "sparse_search"
    /\ dense_results' = Some(<<>>)
    /\ failed_call' = "dense_search"
    /\ UNCHANGED <<query, variant, dense_hits, sparse_hits, rerank_top_n,
                   sparse_results, merged, rerank_calls, final_results>>
    /\ UNCHANGED nonSearchVars

\* dense_index.search(...) raises: nothing in the function catches it, the
\* exception leaves the function.
DenseSearchFails ==
    /\ stage = "dense_search"
    /\ stage' = "raised"
    /\ failed_call' = "dense_search"
    /\ UNCHANGED <<query, variant, dense_hits, sparse_hits, rerank_top_n, dense_results,
                   sparse_results, merged, rerank_calls, final_results>>
    /\ UNCHANGED nonSearchVars

DenseSearchReturns ==
    /\ stage = "dense_search"
    /\ stage' = "sparse_search"
    /\ dense_results' = Some(dense_hits)
    /\ UNCHANGED <<query, variant, dense_hits, sparse_hits, rerank_top_n,
                   sparse_results, merged, rerank_calls, final_results, failed_call>>
    /\ UNCHANGED nonSearchVars

SparseSearchFails ==
    /\ stage = "sparse_search"
    /\ stage' = "raised"
    /\ failed_call' = "sparse_search"
    /\ UNCHANGED <<query, variant, dense_hits, sparse_hits, rerank_top_n, dense_results,
                   sparse_results, merged, rerank_calls, final_results>>
    /\ UNCHANGED nonSearchVars

SparseSearchReturns ==
    /\ stage = "sparse_search"
    /\ stage' = "merge"
    /\ sparse_results' = Some(sparse_hits)
    /\ UNCHANGED <<query, variant, dense_hits, sparse_hits, rerank_top_n, dense_results,
                   merged, rerank_calls, final_results, failed_call>>
    /\ UNCHANGED nonSearchVars

Merge ==
    /\ stage = "merge"
    /\ stage' = "rerank"
    /\ merged' = Some(MergeResults(Val(dense_results), Val(sparse_results)))
    /\ UNCHANGED <<query, variant, dense_hits, sparse_hits, rerank_top_n, dense_results,
                   sparse_results, rerank_calls, final_results, failed_call>>
    /\ UNCHANGED nonSearchVars

\* top_n=min(rerank_top_n, len(merged)) in cascading_search,
\* top_n=rerank_top_n in hybrid_search
TopNArg ==
    IF variant = "cascading" THEN Min(rerank_top_n, Len(Val(merged)))
    ELSE rerank_top_n

\* A rerank call that hands over only the first top_n merged results.
RerankCallPrefixOnly ==
    [query |-> query,
     documents |-> SubSeq(Val(merged), 1, Min(rerank_top_n, Len(Val(merged)))),
     top_n |-> TopNArg]

\* pc.inference.rerank(query=query, documents=merged, top_n=...)
RerankCall == [query |-> query, documents |-> Val(merged), top_n |-> TopNArg]

\* What the external reranker may answer: top_n (at most all) of the documents,
\* in an order of its own.
RerankAnswers(call) ==
    LET n == Min(call.top_n, Len(call.documents))
    IN  { r \in [1..n -> Range(call.documents)] :
            \A i, j \in 1..n : i # j => r[i] # r[j] }

\* The rerank call is made whatever merged holds; it returns.
RerankReturns ==
    /\ stage = "rerank"
    /\ rerank_calls' = Append(rerank_calls, RerankCall)
    /\ \E r \in RerankAnswers(RerankCall) : final_results' = Some(r)
    /\ stage' = "returned"
    /\ UNCHANGED <<query, variant, dense_hits, sparse_hits, rerank_top_n, dense_results,
                   sparse_results, merged, failed_call>>
    /\ UNCHANGED nonSearchVars

\* The rerank call is made and raises.
RerankFails ==
    /\ stage = "rerank"
    /\ rerank_calls' = Append(rerank_calls, RerankCall)
    /\ stage' = "raised"
    /\ failed_call' = "rerank"
    /\ UNCHANGED <<query, variant, dense_hits, sparse_hits, rerank_top_n, dense_results,
                   sparse_results, merged, final_results>>
    /\ UNCHANGED nonSearchVars

SearchNext ==
    \/ DenseSearchReturns
    \/ DenseSearchFails
    \/ SparseSearchReturns
    \/ SparseSearchFails
    \/ Merge
    \/ RerankReturns
    \/ RerankFails

SearchIdle ==
    /\ query = ""
    /\ variant = "none"
    /\ dense_hits = <<>>
    /\ sparse_hits = <<>>
    /\ rerank_top_n = 0
    /\ stage = "idle"
    /\ dense_results = None
    /\ sparse_results = None
    /\ merged = None
    /\ rerank_calls = <<>>
    /\ final_results = None
    /\ failed_call = "none"

----------------------------------------------------------------------------
(* Input documents *)

ShortFilename == <<"D", "-", "1", " ", "(", "a", ")", ".", "p", "d", "f">>
HangulFilename == <<Hangul, Hangul, ".", "p", "d", "f">>
\* "DB (Insurance) 2025.pdf"
ExampleFilename ==
    <<"D", "B", " ", "(", "I", "n", "s", "u", "r", "a", "n", "c", "e", ")",
      " ", "2", "0", "2", "5", ".", "p", "d", "f">>

Filenames == {ShortFilename, HangulFilename, ExampleFilename}

\* datetime.now(), to the second
Timestamps == {"20250101_000000", "20250101_000001"}

FullDeckMeta(filename) ==
    [filename |-> filename, deck_industry |-> <<"insurance">>,
     company_name |-> <<"DB">>, executive_summary |-> <<"summary">>]

DeckMetas ==
    {FullDeckMeta(f) : f \in Filenames} \cup {[filename |-> f] : f \in Filenames}

FullSlideFields ==
    [slide_content |-> <<"ocr">>, slide_summary |-> <<"ai">>,
     keywords |-> << <<"k1">>, <<"k2">> >>, slide_layout |-> <<"grid">>]

\* The fields of a slide other than slide_number.  A key left out and a key
\* holding "" or [] read the same through slide.get().
SlideFields ==
    { FullSlideFields,
      [slide_summary |-> <<"ai">>],
      [slide_content |-> <<"ocr">>],
      [keywords |-> << <<"k1">> >>],
      [slide_layout |-> <<"grid">>],
      <<>> }

SlideNumbers == {1, 2}

SlideInputs ==
    SlideFields \cup
    {f @@ [k \in {"slide_number"} |-> n] : f \in SlideFields, n \in SlideNumbers}

SmallDocuments ==
    {[deck_metadata |-> dm, slide_data |-> sl] :
        dm \in DeckMetas, sl \in SeqsUpTo(SlideInputs, MaxSlides)}

\* Decks of MAX_BATCH_SIZE - 1 and MAX_BATCH_SIZE well-formed slides:
\* MAX_BATCH_SIZE and MAX_BATCH_SIZE + 1 records.
LargeDocuments ==
    {[deck_metadata |-> FullDeckMeta(ShortFilename),
      slide_data |-> [i \in 1..n |->
                         FullSlideFields @@ [k \in {"slide_number"} |-> i]]] :
        n \in {MAX_BATCH_SIZE - 1, MAX_BATCH_SIZE}}

Documents == SmallDocuments \cup LargeDocuments

----------------------------------------------------------------------------
(* process_metadata_file *)

\* transform_metadata_to_records raises KeyError at the first slide without
\* slide_number; process_metadata_file catches it and returns False.
\* A builder that returns the records built before the malformed slide.
PmfTransformReturnsPartial ==
    /\ path = "process_metadata_file"
    /\ istage = "transform"
    /\ LacksSlideNumber(document.slide_data)
    /\ LET slides == document.slide_data
           bad == CHOOSE i \in 1..Len(slides) :
                     /\ "slide_number" \notin DOMAIN slides[i]
                     /\ \A j \in 1..(i - 1) : "slide_number" \in DOMAIN slides[j]
           part == [document EXCEPT !.slide_data = SubSeq(slides, 1, bad - 1)]
       IN  \E now \in Timestamps : records' = Some(TransformRecords(part, now))
    /\ fallback_warned' = NeedsFallbackId(sanitize_id(document.deck_metadata.filename))
    /\ istage' = "validate"
    /\ UNCHANGED <<path, document, invalid_reports, saved_batches, returned,
                   upsert_calls>>
    /\ UNCHANGED nonIngestVars

\* slide['slide_number'] raises KeyError inside transform_metadata_to_records;
\* process_metadata_file catches it and returns False.
PmfTransformRaises ==
    /\ path = "process_metadata_file"
    /\ istage = "transform"
    /\ LacksSlideNumber(document.slide_data)
    /\ fallback_warned' = NeedsFallbackId(sanitize_id(document.deck_metadata.filename))
    /\ returned' = Some(FALSE)
    /\ istage' = "done"
    /\ UNCHANGED <<path, document, records, invalid_reports, saved_batches,
                   upsert_calls>>
    /\ UNCHANGED nonIngestVars

PmfTransformReturns ==
    /\ path = "process_metadata_file"
    /\ istage = "transform"
    /\ ~LacksSlideNumber(document.slide_data)
    /\ \E now \in Timestamps : records' = Some(TransformRecords(document, now))
    /\ fallback_warned' = NeedsFallbackId(sanitize_id(document.deck_metadata.filename))
    /\ istage' = "validate"
    /\ UNCHANGED <<path, document, invalid_reports, saved_batches, returned,
                   upsert_calls>>
    /\ UNCHANGED nonIngestVars

InvalidReportsFirstOnly(recs) ==
    LET bad == {i \in 1..Len(recs) : ~validate_record(recs[i])[1]}
    IN  IF bad = {} THEN <<>>
        ELSE LET i == CHOOSE k \in bad : \A j \in bad : k <= j
             IN  << [_id |-> Get(recs[i], "_id", <<"unknown">>),
                     message |-> validate_record(recs[i])[2]] >>

\* for record in records: ... print(f"Invalid record {id}: {message}")
RECURSIVE InvalidReports(_)
InvalidReports(recs) ==
    IF recs = <<>> THEN <<>>
    ELSE (IF validate_record(Head(recs))[1] THEN <<>>
          ELSE << [_id |-> Get(Head(recs), "_id", <<"unknown">>),
                   message |-> validate_record(Head(recs))[2]] >>)
             \o InvalidReports(Tail(recs))

\* The validation loop and the abort that follows it.
PmfValidate ==
    /\ path = "process_metadata_file"
    /\ istage = "validate"
    /\ invalid_reports' = InvalidReports(Val(records))
    /\ IF Len(InvalidReports(Val(records))) > 0
       THEN returned' = Some(FALSE) /\ istage' = "done"
       ELSE returned' = returned /\ istage' = "batch"
    /\ UNCHANGED <<path, document, records, fallback_warned, saved_batches,
                   upsert_calls>>
    /\ UNCHANGED nonIngestVars

\* create_batches, save_batches, the summary file, return True.
PmfBatchAndSave ==
    /\ path = "process_metadata_file"
    /\ istage = "batch"
    /\ saved_batches' = create_batches(Val(records), MAX_BATCH_SIZE)
    /\ returned' = Some(TRUE)
    /\ istage' = "done"
    /\ UNCHANGED <<path, document, records, fallback_warned, invalid_reports,
                   upsert_calls>>
    /\ UNCHANGED nonIngestVars

----------------------------------------------------------------------------
(* ingest_pdf_metadata *)

\* The four upsert_records calls, in the order the function makes them.
IngestTargets(doc_id) ==
    << [index |-> DENSE_INDEX, namespace |-> DocNamespace(doc_id)],
       [index |-> SPARSE_INDEX, namespace |-> DocNamespace(doc_id)],
       [index |-> DENSE_INDEX, namespace |-> GLOBAL_NAMESPACE],
       [index |-> SPARSE_INDEX, namespace |-> GLOBAL_NAMESPACE] >>

\* slide['slide_number'] raises KeyError: the exception leaves the function.
IngestBuildRaises ==
    /\ path = "ingest_pdf_metadata"
    /\ istage = "build"
    /\ LacksSlideNumber(document.slide_data)
    /\ istage' = "raised"
    /\ UNCHANGED <<path, document, records, fallback_warned, invalid_reports,
                   saved_batches, returned, upsert_calls>>
    /\ UNCHANGED nonIngestVars

IngestBuildReturns ==
    /\ path = "ingest_pdf_metadata"
    /\ istage = "build"
    /\ ~LacksSlideNumber(document.slide_data)
    /\ records' = Some(UnifiedRecords(document))
    /\ istage' = "upsert"
    /\ UNCHANGED <<path, document, fallback_warned, invalid_reports,
                   saved_batches, returned, upsert_calls>>
    /\ UNCHANGED nonIngestVars

\* The upsert_records call that is next, carrying all the records.
IngestCall(ok) ==
    LET target == IngestTargets(Stem(document.deck_metadata.filename))
                      [Len(upsert_calls) + 1]
    IN  [index |-> target.index, namespace |-> target.namespace,
         records |-> Val(records), ok |-> ok]

IngestUpsertReturns ==
    /\ path = "ingest_pdf_metadata"
    /\ istage = "upsert"
    /\ upsert_calls' = Append(upsert_calls, IngestCall(TRUE))
    /\ IF Len(upsert_calls') = 4
       THEN /\ istage' = "done"
            /\ returned' = Some(Stem(document.deck_metadata.filename))
       ELSE /\ istage' = "upsert"
            /\ returned' = returned
    /\ UNCHANGED <<path, document, records, fallback_warned, invalid_reports,
                   saved_batches>>
    /\ UNCHANGED nonIngestVars

IngestUpsertRaises ==
    /\ path = "ingest_pdf_metadata"
    /\ istage = "upsert"
    /\ upsert_calls' = Append(upsert_calls, IngestCall(FALSE))
    /\ istage' = "raised"
    /\ UNCHANGED <<path, document, records, fallback_warned, invalid_reports,
                   saved_batches, returned>>
    /\ UNCHANGED nonIngestVars

IngestInit ==
    /\ path \in {"process_metadata_file", "ingest_pdf_metadata"}
    /\ document \in Documents
    /\ istage = IF path = "process_metadata_file" THEN "transform" ELSE "build"
    /\ records = None
    /\ fallback_warned = FALSE
    /\ invalid_reports = <<>>
    /\ saved_batches = <<>>
    /\ returned = None

IngestIdle ==
    /\ path = "none"
    /\ document = <<>>
    /\ istage = "idle"
    /\ records = None
    /\ fallback_warned = FALSE
    /\ invalid_reports = <<>>
    /\ saved_batches = <<>>
    /\ returned = None

IngestNext ==
    \/ PmfTransformRaises
    \/ PmfTransformReturns
    \/ PmfValidate
    \/ PmfBatchAndSave
    \/ IngestBuildRaises
    \/ IngestBuildReturns
    \/ IngestUpsertReturns
    \/ IngestUpsertRaises

----------------------------------------------------------------------------
(* ingest_bulk: ingest_pdf_metadata on every metadata file *)

\* Documents of no or one slide; the slide may lack its slide_number.
BulkDocuments ==
    {[deck_metadata |-> FullDeckMeta(f), slide_data |-> sl] :
        f \in {ShortFilename, HangulFilename},
        sl \in SeqsUpTo({FullSlideFields,
                         FullSlideFields @@ [k \in {"slide_number"} |-> 1]}, 1)}

BulkInit ==
    /\ bulk_files \in SeqsUpTo(BulkDocuments, MaxBulkFiles)
    /\ bulk_idx = 1
    /\ bulk_stage = "build"
    /\ bulk_records = None
    /\ bulk_issued = 0
    /\ ingested = <<>>
    /\ failed = <<>>
    /\ index_store = {}

BulkIdle ==
    /\ bulk_files = <<>>
    /\ bulk_idx = 0
    /\ bulk_stage = "idle"
    /\ bulk_records = None
    /\ bulk_issued = 0
    /\ ingested = <<>>
    /\ failed = <<>>
    /\ index_store = {}

BulkDocId == Stem(bulk_files[bulk_idx].deck_metadata.filename)

\* The upsert_records call that is next in ingest_pdf_metadata.
BulkCall(ok) ==
    LET target == IngestTargets(BulkDocId)[bulk_issued + 1]
    IN  [file |-> bulk_idx, index |-> target.index,
         namespace |-> target.namespace, records |-> Val(bulk_records),
         ok |-> ok]

\* What a call that went through leaves in the index.
Written(call) ==
    {<<call.index, call.namespace, call.records[i]._id>> :
        i \in 1..Len(call.records)}

\* except Exception: failed.append(str(metadata_file)), then the next file
NextFileAfterFailure ==
    /\ failed' = Append(failed, bulk_idx)
    /\ bulk_idx' = bulk_idx + 1
    /\ bulk_stage' = "build"
    /\ bulk_records' = None
    /\ bulk_issued' = 0
    /\ UNCHANGED ingested

\* slide['slide_number'] raises while the records are built.
BulkBuildRaises ==
    /\ bulk_stage = "build"
    /\ bulk_idx <= Len(bulk_files)
    /\ LacksSlideNumber(bulk_files[bulk_idx].slide_data)
    /\ NextFileAfterFailure
    /\ UNCHANGED <<bulk_files, index_store, upsert_calls>>
    /\ UNCHANGED nonBulkVars

BulkBuildReturns ==
    /\ bulk_stage = "build"
    /\ bulk_idx <= Len(bulk_files)
    /\ ~LacksSlideNumber(bulk_files[bulk_idx].slide_data)
    /\ bulk_records' = Some(UnifiedRecords(bulk_files[bulk_idx]))
    /\ bulk_stage' = "upsert"
    /\ UNCHANGED <<bulk_files, bulk_idx, bulk_issued, ingested, failed,
                   index_store, upsert_calls>>
    /\ UNCHANGED nonBulkVars

\* An upsert_records call returns; after the fourth, return doc_id and
\* ingested.append(doc_id).
BulkUpsertReturns ==
    /\ bulk_stage = "upsert"
    /\ upsert_calls' = Append(upsert_calls, BulkCall(TRUE))
    /\ index_store' = index_store \cup Written(BulkCall(TRUE))
    /\ IF bulk_issued + 1 = 4
       THEN /\ ingested' = Append(ingested, BulkDocId)
            /\ bulk_idx' = bulk_idx + 1
            /\ bulk_stage' = "build"
            /\ bulk_records' = None
            /\ bulk_issued' = 0
       ELSE /\ bulk_issued' = bulk_issued + 1
            /\ UNCHANGED <<ingested, bulk_idx, bulk_stage, bulk_records>>
    /\ UNCHANGED <<bulk_files, failed>>
    /\ UNCHANGED nonBulkVars

\* An upsert that raises is caught inside ingest_pdf_metadata and the next
\* upsert is issued.
BulkUpsertRaisesIsolated ==
    /\ bulk_stage = "upsert"
    /\ upsert_calls' = Append(upsert_calls, BulkCall(FALSE))
    /\ IF bulk_issued + 1 = 4
       THEN NextFileAfterFailure
       ELSE /\ bulk_issued' = bulk_issued + 1
            /\ UNCHANGED <<ingested, failed, bulk_idx, bulk_stage, bulk_records>>
    /\ UNCHANGED <<bulk_files, index_store>>
    /\ UNCHANGED nonBulkVars

\* An upsert_records call raises: the exception leaves ingest_pdf_metadata and
\* is caught by ingest_bulk.  The failed call may or may not have written.
BulkUpsertRaises ==
    /\ bulk_stage = "upsert"
    /\ upsert_calls' = Append(upsert_calls, BulkCall(FALSE))
    /\ \/ index_store' = index_store
       \/ index_store' = index_store \cup Written(BulkCall(FALSE))
    /\ NextFileAfterFailure
    /\ UNCHANGED bulk_files
    /\ UNCHANGED nonBulkVars

\* return ingested, failed
BulkReturns ==
    /\ bulk_stage = "build"
    /\ bulk_idx > Len(bulk_files)
    /\ bulk_stage' = "done"
    /\ UNCHANGED <<bulk_files, bulk_idx, bulk_records, bulk_issued, ingested,
                   failed, index_store, upsert_calls>>
    /\ UNCHANGED nonBulkVars

BulkNext ==
    \/ BulkBuildRaises
    \/ BulkBuildReturns
    \/ BulkUpsertReturns
    \/ BulkUpsertRaises
    \/ BulkReturns

----------------------------------------------------------------------------
(* create_batches / chunk_list on their own *)

BatchSizes == (-1..MaxBatchSizeArg) \cup {MAX_BATCH_SIZE}

BatchInit ==
    /\ batch_input \in {[i \in 1..n |-> i] : n \in 0..MaxRecords}
    /\ batch_size \in BatchSizes
    /\ bstage = "call"
    /\ batches = None

BatchIdle ==
    /\ batch_input = <<>>
    /\ batch_size = 0
    /\ bstage = "idle"
    /\ batches = None

CreateBatchesReturns ==
    /\ bstage = "call"
    /\ ~CreateBatchesRaises(batch_size)
    /\ batches' = Some(create_batches(batch_input, batch_size))
    /\ bstage' = "returned"
    /\ UNCHANGED <<batch_input, batch_size>>
    /\ UNCHANGED nonBatchVars

CreateBatchesFails ==
    /\ bstage = "call"
    /\ CreateBatchesRaises(batch_size)
    /\ bstage' = "raised"
    /\ UNCHANGED <<batch_input, batch_size, batches>>
    /\ UNCHANGED nonBatchVars

BatchNext ==
    \/ CreateBatchesReturns
    \/ CreateBatchesFails

----------------------------------------------------------------------------
(* pinecone_batch_upsert.process_files *)

\* BATCH_SIZE, the default of the batch_size parameter
BATCH_SIZE == 50

\* chunk_list; a negative step makes the range empty
chunk_list(items, chunk_size) ==
    IF chunk_size < 0 THEN <<>> ELSE BatchesFrom(items, 0, chunk_size)

\* A prepare_batch that gives up the whole load when one record is invalid.
prepare_batch_all_or_nothing(recs) ==
    IF \A i \in 1..Len(recs) : batch_upsert_validate_record(recs[i])
    THEN recs ELSE <<>>

\* prepare_batch: [r for r in records if validate_record(r)]
prepare_batch(recs) == SelectSeq(recs, batch_upsert_validate_record)

\* all_records after the loading loop: every file's records, in file order
RECURSIVE LoadAll(_)
LoadAll(files) ==
    IF files = <<>> THEN <<>> ELSE Head(files) \o LoadAll(Tail(files))

\* The records the JSON files hold: two valid ones, one without "id", one
\* whose content is the empty string.
LoadableRecords ==
    { [id |-> <<"a">>, content |-> <<"t", "x", "t">>],
      [id |-> <<"b">>, content |-> <<"t", "x", "t">>],
      [content |-> <<"t", "x", "t">>],
      [id |-> <<"c">>, content |-> <<>>] }

\* What load_json_file returns for one file: [] (unreadable, or an empty
\* array), a single object wrapped in a list, or an array.
LoadedFiles ==
    {<<>>} \cup {<<r>> : r \in LoadableRecords}
           \cup {<<r1, r2>> : r1 \in LoadableRecords, r2 \in LoadableRecords}

PrepareInit ==
    /\ json_files \in SeqsUpTo(LoadedFiles, MaxJsonFiles)
    /\ chunk_size_arg \in (-1..MaxBatchSizeArg) \cup {BATCH_SIZE}
    /\ save_batches_arg \in BOOLEAN
    /\ pstage = "call"
    /\ all_records = <<>>
    /\ valid_records = <<>>
    /\ process_result = None

PrepareIdle ==
    /\ json_files = <<>>
    /\ chunk_size_arg = 0
    /\ save_batches_arg = FALSE
    /\ pstage = "idle"
    /\ all_records = <<>>
    /\ valid_records = <<>>
    /\ process_result = None

\* for file in files: all_records.extend(load_json_file(file))
ProcessFilesLoads ==
    /\ pstage = "call"
    /\ all_records' = LoadAll(json_files)
    /\ pstage' = "loaded"
    /\ UNCHANGED <<json_files, chunk_size_arg, save_batches_arg, valid_records,
                   process_result>>
    /\ UNCHANGED nonPrepareVars

\* valid_records = prepare_batch(all_records)
ProcessFilesValidates ==
    /\ pstage = "loaded"
    /\ valid_records' = prepare_batch(all_records)
    /\ pstage' = "validated"
    /\ UNCHANGED <<json_files, chunk_size_arg, save_batches_arg, all_records,
                   process_result>>
    /\ UNCHANGED nonPrepareVars

\* if not valid_records: return {"success": False, ...}
ProcessFilesReportsFailure ==
    /\ pstage = "validated"
    /\ valid_records = <<>>
    /\ process_result' = Some([success |-> FALSE, batches |-> 0, records |-> 0])
    /\ pstage' = "returned"
    /\ UNCHANGED <<json_files, chunk_size_arg, save_batches_arg, all_records,
                   valid_records>>
    /\ UNCHANGED nonPrepareVars

\* chunk_list raises (range() with a zero step)
ProcessFilesRaises ==
    /\ pstage = "validated"
    /\ valid_records # <<>>
    /\ CreateBatchesRaises(chunk_size_arg)
    /\ pstage' = "raised"
    /\ UNCHANGED <<json_files, chunk_size_arg, save_batches_arg, all_records,
                   valid_records, process_result>>
    /\ UNCHANGED nonPrepareVars

\* chunk_list, the optional saving of each batch (a batch whose file cannot
\* be written is left out of batch_files), return {"success": True, ...}
ProcessFilesReturns ==
    /\ pstage = "validated"
    /\ valid_records # <<>>
    /\ ~CreateBatchesRaises(chunk_size_arg)
    /\ LET chunks == chunk_list(valid_records, chunk_size_arg)
       IN  \E saved \in SUBSET (1..Len(chunks)) :
               /\ save_batches_arg \/ saved = {}
               /\ process_result' =
                      Some([success |-> TRUE,
                            batches |-> Len(chunks),
                            records |-> Len(valid_records),
                            batch_files |-> saved,
                            batches_data |-> chunks])
    /\ pstage' = "returned"
    /\ UNCHANGED <<json_files, chunk_size_arg, save_batches_arg, all_records,
                   valid_records>>
    /\ UNCHANGED nonPrepareVars

PrepareNext ==
    \/ ProcessFilesLoads
    \/ ProcessFilesValidates
    \/ ProcessFilesReportsFailure
    \/ ProcessFilesRaises
    \/ ProcessFilesReturns

----------------------------------------------------------------------------
(* upsert_all_batches *)

DispatchPdfId == <<"d", "_", "1", "_", "a">>

\* targets = [...]
Targets ==
    << [index |-> DENSE_INDEX, namespace |-> DocNamespace(DispatchPdfId)],
       [index |-> DENSE_INDEX, namespace |-> GLOBAL_NAMESPACE],
       [index |-> SPARSE_INDEX, namespace |-> DocNamespace(DispatchPdfId)],
       [index |-> SPARSE_INDEX, namespace |-> GLOBAL_NAMESPACE] >>

\* What a batch file may hold: upsert_all_batches never looks into it.
BatchFileContents == {<<"r1">>, <<"r1", "r2">>}

DispatchInit ==
    /\ batch_files \in SeqsUpTo(BatchFileContents, MaxBatchFiles)
    /\ dstage = "start"
    /\ target_idx = 0
    /\ batch_idx = 0
    /\ successful_operations = 0
    /\ failed_operations = 0
    /\ dispatch_result = None

DispatchIdle ==
    /\ batch_files = <<>>
    /\ dstage = "idle"
    /\ target_idx = 0
    /\ batch_idx = 0
    /\ successful_operations = 0
    /\ failed_operations = 0
    /\ dispatch_result = None

\* if not batch_files: sys.exit(1)
DispatchNoBatchFiles ==
    /\ dstage = "start"
    /\ batch_files = <<>>
    /\ dstage' = "exit"
    /\ UNCHANGED <<batch_files, target_idx, batch_idx, successful_operations,
                   failed_operations, dispatch_result, upsert_calls>>
    /\ UNCHANGED nonDispatchVars

\* Entering the two nested loops.
DispatchStart ==
    /\ dstage = "start"
    /\ batch_files # <<>>
    /\ dstage' = "loop"
    /\ target_idx' = 1
    /\ batch_idx' = 1
    /\ UNCHANGED <<batch_files, successful_operations, failed_operations,
                   dispatch_result, upsert_calls>>
    /\ UNCHANGED nonDispatchVars

\* index.upsert_records(records, namespace=namespace) for the current pair
DispatchCall(ok) ==
    [index |-> Targets[target_idx].index,
     namespace |-> Targets[target_idx].namespace,
     records |-> batch_files[batch_idx],
     batch_num |-> batch_idx,
     ok |-> ok]

\* Loops nested the other way round: every target for one batch, then the
\* next batch.
AdvanceBatchMajor ==
    IF target_idx < Len(Targets)
    THEN /\ target_idx' = target_idx + 1
         /\ batch_idx' = batch_idx
         /\ dstage' = "loop"
    ELSE IF batch_idx < Len(batch_files)
    THEN /\ target_idx' = 1
         /\ batch_idx' = batch_idx + 1
         /\ dstage' = "loop"
    ELSE /\ batch_idx' = batch_idx
         /\ target_idx' = target_idx
         /\ dstage' = "summary"

\* The loop variables after the current (target, batch) iteration.
Advance ==
    IF batch_idx < Len(batch_files)
    THEN /\ batch_idx' = batch_idx + 1
         /\ target_idx' = target_idx
         /\ dstage' = "loop"
    ELSE IF target_idx < Len(Targets)
    THEN /\ batch_idx' = 1
         /\ target_idx' = target_idx + 1
         /\ dstage' = "loop"
    ELSE /\ batch_idx' = batch_idx
         /\ target_idx' = target_idx
         /\ dstage' = "summary"

\* upsert_batch_to_index returns True
UpsertBatchSucceeds ==
    /\ dstage = "loop"
    /\ upsert_calls' = Append(upsert_calls, DispatchCall(TRUE))
    /\ successful_operations' = successful_operations + 1
    /\ Advance
    /\ UNCHANGED <<batch_files, failed_operations, dispatch_result>>
    /\ UNCHANGED nonDispatchVars

\* A failure that abandons the rest of the current target's batches.
UpsertBatchFailsSkipsTarget ==
    /\ dstage = "loop"
    /\ upsert_calls' = Append(upsert_calls, DispatchCall(FALSE))
    /\ failed_operations' = failed_operations + 1
    /\ IF target_idx < Len(Targets)
       THEN batch_idx' = 1 /\ target_idx' = target_idx + 1 /\ dstage' = "loop"
       ELSE batch_idx' = batch_idx /\ target_idx' = target_idx /\ dstage' = "summary"
    /\ UNCHANGED <<batch_files, successful_operations, dispatch_result>>
    /\ UNCHANGED nonDispatchVars

\* upsert_batch_to_index catches the exception and returns False
UpsertBatchFails ==
    /\ dstage = "loop"
    /\ upsert_calls' = Append(upsert_calls, DispatchCall(FALSE))
    /\ failed_operations' = failed_operations + 1
    /\ Advance
    /\ UNCHANGED <<batch_files, successful_operations, dispatch_result>>
    /\ UNCHANGED nonDispatchVars

\* A summary that reports success as soon as one operation succeeded.
DispatchSummaryAnySuccess ==
    /\ dstage = "summary"
    /\ dispatch_result' = Some(successful_operations > 0)
    /\ dstage' = "done"
    /\ UNCHANGED <<batch_files, target_idx, batch_idx, successful_operations,
                   failed_operations, upsert_calls>>
    /\ UNCHANGED nonDispatchVars

\* The summary and the return value.
DispatchSummary ==
    /\ dstage = "summary"
    /\ dispatch_result' = Some(failed_operations = 0)
    /\ dstage' = "done"
    /\ UNCHANGED <<batch_files, target_idx, batch_idx, successful_operations,
                   failed_operations, upsert_calls>>
    /\ UNCHANGED nonDispatchVars

DispatchNext ==
    \/ DispatchNoBatchFiles
    \/ DispatchStart
    \/ UpsertBatchSucceeds
    \/ UpsertBatchFails
    \/ DispatchSummary

----------------------------------------------------------------------------
(* Specifications: one per entry point *)

InitSearch ==
    SearchInit /\ IngestIdle /\ BatchIdle /\ DispatchIdle /\ MergeIdle
    /\ ValidateIdle /\ SanitizeIdle /\ CorpusIdle /\ BulkIdle
    /\ PrepareIdle /\ SwapIdle /\ upsert_calls = <<>>

SpecSearch == InitSearch /\ [][SearchNext]_vars

InitIngest ==
    IngestInit /\ SearchIdle /\ BatchIdle /\ DispatchIdle /\ MergeIdle
    /\ ValidateIdle /\ SanitizeIdle /\ CorpusIdle /\ BulkIdle
    /\ PrepareIdle /\ SwapIdle /\ upsert_calls = <<>>

SpecIngest == InitIngest /\ [][IngestNext]_vars

InitBatch ==
    BatchInit /\ SearchIdle /\ IngestIdle /\ DispatchIdle /\ MergeIdle
    /\ ValidateIdle /\ SanitizeIdle /\ CorpusIdle /\ BulkIdle
    /\ PrepareIdle /\ SwapIdle /\ upsert_calls = <<>>

SpecBatch == InitBatch /\ [][BatchNext]_vars

InitDispatch ==
    DispatchInit /\ SearchIdle /\ IngestIdle /\ BatchIdle /\ MergeIdle
    /\ ValidateIdle /\ SanitizeIdle /\ CorpusIdle /\ BulkIdle
    /\ PrepareIdle /\ SwapIdle /\ upsert_calls = <<>>

SpecDispatch == InitDispatch /\ [][DispatchNext]_vars

InitMerge ==
    MergeInit /\ SearchIdle /\ IngestIdle /\ BatchIdle /\ DispatchIdle
    /\ ValidateIdle /\ SanitizeIdle /\ CorpusIdle /\ BulkIdle
    /\ PrepareIdle /\ SwapIdle /\ upsert_calls = <<>>

SpecMerge == InitMerge /\ [][MergeNext]_vars

InitValidate ==
    ValidateInit /\ SearchIdle /\ IngestIdle /\ BatchIdle /\ DispatchIdle
    /\ MergeIdle /\ SanitizeIdle /\ CorpusIdle /\ BulkIdle
    /\ PrepareIdle /\ SwapIdle /\ upsert_calls = <<>>

SpecValidate == InitValidate /\ [][ValidateNext]_vars

InitSanitize ==
    SanitizeInit /\ SearchIdle /\ IngestIdle /\ BatchIdle /\ DispatchIdle
    /\ MergeIdle /\ ValidateIdle /\ CorpusIdle /\ BulkIdle
    /\ PrepareIdle /\ SwapIdle /\ upsert_calls = <<>>

SpecSanitize == InitSanitize /\ [][SanitizeNext]_vars

InitCorpus ==
    CorpusInit /\ SearchIdle /\ IngestIdle /\ BatchIdle /\ DispatchIdle
    /\ MergeIdle /\ ValidateIdle /\ SanitizeIdle /\ BulkIdle
    /\ PrepareIdle /\ SwapIdle /\ upsert_calls = <<>>

SpecCorpus == InitCorpus /\ [][CorpusNext]_vars

InitBulk ==
    BulkInit /\ SearchIdle /\ IngestIdle /\ BatchIdle /\ DispatchIdle
    /\ MergeIdle /\ ValidateIdle /\ SanitizeIdle /\ CorpusIdle
    /\ PrepareIdle /\ SwapIdle /\ upsert_calls = <<>>

SpecBulk == InitBulk /\ [][BulkNext]_vars

InitPrepare ==
    PrepareInit /\ SearchIdle /\ IngestIdle /\ BatchIdle /\ DispatchIdle
    /\ MergeIdle /\ ValidateIdle /\ SanitizeIdle /\ CorpusIdle /\ BulkIdle
    /\ SwapIdle /\ upsert_calls = <<>>

SpecPrepare == InitPrepare /\ [][PrepareNext]_vars

InitSwap ==
    SwapInit /\ SearchIdle /\ IngestIdle /\ BatchIdle /\ DispatchIdle
    /\ MergeIdle /\ ValidateIdle /\ SanitizeIdle /\ CorpusIdle /\ BulkIdle
    /\ PrepareIdle /\ upsert_calls = <<>>

SpecSwap == InitSwap /\ [][SwapNext]_vars

----------------------------------------------------------------------------
(* Properties of the retrieval engine *)

Occurrences(list, id) == Cardinality({i \in 1..Len(list) : list[i]._id = id})

ScoreIn(list, id) == list[CHOOSE i \in 1..Len(list) : list[i]._id = id]._score

IdsOf(list) == {list[i]._id : i \in 1..Len(list)}

\* C1: when the dense and the sparse search both return no hits (the merged
\* set is empty), the search never invokes the reranker and returns an empty
\* ranked result.
C1_EmptyMergeSkipsRerank ==
    (IsSome(merged) /\ Val(merged) = <<>>) =>
        /\ rerank_calls = <<>>
        /\ stage # "raised"
        /\ stage = "returned" => final_results = Some(<<>>)

\* C2: if the dense or the sparse search call fails, the search fails as a
\* whole: the failure leaves the function, no merge result is produced, the
\* reranker is not invoked and nothing (neither a partial nor an empty list)
\* is returned.
C2_SearchFailureIsFatal ==
    failed_call \in {"dense_search", "sparse_search"} =>
        /\ stage = "raised"
        /\ merged = None
        /\ rerank_calls = <<>>
        /\ final_results = None

C2_Witness ==
    /\ failed_call = "sparse_search"
    /\ stage = "raised"
    /\ IsSome(dense_results)
    /\ Val(dense_results) # <<>>

\* C3: after the merge, an id found once in the dense list (score s1) and once
\* in the sparse list (score s2) carries the score (s1 + s2) / 2 exactly; an
\* id found in one list only (once) keeps that list's score unchanged.
C3_MergeScoreFusion ==
    IsSome(merged) =>
        LET d == Val(dense_results)
            s == Val(sparse_results)
            m == Val(merged)
        IN  \A id \in Ids :
              /\ (Occurrences(d, id) = 1 /\ Occurrences(s, id) = 1) =>
                    /\ HasKey(m, id)
                    /\ 2 * ScoreIn(m, id) = ScoreIn(d, id) + ScoreIn(s, id)
              /\ (Occurrences(d, id) = 1 /\ Occurrences(s, id) = 0) =>
                    /\ HasKey(m, id)
                    /\ ScoreIn(m, id) = ScoreIn(d, id)
              /\ (Occurrences(d, id) = 0 /\ Occurrences(s, id) = 1) =>
                    /\ HasKey(m, id)
                    /\ ScoreIn(m, id) = ScoreIn(s, id)

C3_Witness ==
    /\ IsSome(merged)
    /\ \E id \in Ids :
          /\ Occurrences(Val(dense_results), id) = 1
          /\ Occurrences(Val(sparse_results), id) = 1
          /\ ScoreIn(Val(dense_results), id) # ScoreIn(Val(sparse_results), id)
    /\ \E id \in Ids :
          /\ Occurrences(Val(dense_results), id) = 0
          /\ Occurrences(Val(sparse_results), id) = 1

\* C4: after the merge, whatever the two hit lists are (an id may be repeated
\* in a list), every id appears in at most one merged result and the merged
\* ids are exactly the ids of the two lists together.
C4_MergeDeduplicates ==
    IsSome(merged) =>
        LET m == Val(merged)
        IN  /\ \A i, j \in 1..Len(m) : m[i]._id = m[j]._id => i = j
            /\ IdsOf(m) = IdsOf(Val(dense_results)) \cup IdsOf(Val(sparse_results))

C4_Witness ==
    /\ IsSome(merged)
    /\ \E id \in Ids :
          /\ Occurrences(Val(dense_results), id) = 2
          /\ Occurrences(Val(sparse_results), id) >= 1
    /\ Cardinality(IdsOf(Val(merged))) = 2

----------------------------------------------------------------------------
(* Properties of record building, validation and batching *)

SlideCount == Len(document.slide_data)

BuilderRan == istage \notin {"idle", "transform", "build"}

RecordIdsDistinct(recs) ==
    \A i, j \in 1..Len(recs) : recs[i]._id = recs[j]._id => i = j

SlideNumbersDistinct(slides) ==
    \A i, j \in 1..Len(slides) :
        slides[i].slide_number = slides[j].slide_number => i = j

CountOfType(recs, type) == Cardinality({i \in 1..Len(recs) : recs[i].type = type})

\* C5 as stated: for every document with N slides, the records the record
\* builder produces are exactly N+1 (one deck_metadata record and N slide
\* records) and their ids are pairwise distinct.
C5_EveryDocumentYieldsDistinctRecords ==
    IsSome(records) =>
        /\ Len(Val(records)) = SlideCount + 1
        /\ CountOfType(Val(records), "deck_metadata") = 1
        /\ CountOfType(Val(records), "slide") = SlideCount
        /\ RecordIdsDistinct(Val(records))

\* C5 amended: for every document with N slides that all carry a
\* slide_number the record builder produces exactly N+1 records (one
\* deck_metadata record and N slide records), and their ids are pairwise
\* distinct exactly when the slide_numbers are pairwise distinct; a document
\* with a slide that lacks slide_number yields no records.
C5_RecordsOfWellFormedDocument ==
    BuilderRan =>
        IF LacksSlideNumber(document.slide_data)
        THEN records = None
        ELSE /\ IsSome(records)
             /\ Len(Val(records)) = SlideCount + 1
             /\ CountOfType(Val(records), "deck_metadata") = 1
             /\ CountOfType(Val(records), "slide") = SlideCount
             /\ RecordIdsDistinct(Val(records))
                    <=> SlideNumbersDistinct(document.slide_data)

C5_Witness ==
    /\ IsSome(records)
    /\ path = "process_metadata_file"
    /\ SlideCount = 2
    /\ SlideNumbersDistinct(document.slide_data)
    /\ RecordIdsDistinct(Val(records))

RECURSIVE Concat(_)
Concat(seqs) == IF seqs = <<>> THEN <<>> ELSE Head(seqs) \o Concat(Tail(seqs))

\* C6: for every record sequence and every max_size k > 0 the batches are a
\* contiguous order-preserving partition: their concatenation is the input,
\* every batch holds between 1 and k records and every batch but the last
\* holds exactly k; 97 records with k = 96 give two batches of 96 and 1.
C6_BatchesPartitionInput ==
    (bstage # "call" /\ batch_size > 0) =>
        /\ bstage = "returned"
        /\ IsSome(batches)
        /\ LET bs == Val(batches)
           IN  /\ Concat(bs) = batch_input
               /\ \A i \in 1..Len(bs) : Len(bs[i]) >= 1 /\ Len(bs[i]) <= batch_size
               /\ \A i \in 1..(Len(bs) - 1) : Len(bs[i]) = batch_size
               /\ (Len(batch_input) = MAX_BATCH_SIZE + 1 /\ batch_size = MAX_BATCH_SIZE)
                     => [i \in 1..Len(bs) |-> Len(bs[i])] = <<MAX_BATCH_SIZE, 1>>

C6_Witness ==
    /\ bstage = "returned"
    /\ Len(batch_input) = MAX_BATCH_SIZE + 1
    /\ batch_size = MAX_BATCH_SIZE
    /\ Len(Val(batches)) = 2

\* C7: every upsert call issued to an index, on every ingestion path, carries
\* at most MAX_BATCH_SIZE = 96 records.
C7_UpsertCallsWithinBatchLimit ==
    \A i \in 1..Len(upsert_calls) : Len(upsert_calls[i].records) <= MAX_BATCH_SIZE

InvalidIndexes(recs) == {i \in 1..Len(recs) : ~validate_record(recs[i])[1]}

\* C8: in process_metadata_file, once validation has run, if at least one
\* built record is invalid then no batch is created or saved and the run has
\* returned False, and every invalid record (not only the first) has been
\* reported, in order, with its own failure reason.
C8_ValidationAllOrNothing ==
    (path = "process_metadata_file" /\ istage \in {"batch", "done"} /\ IsSome(records)) =>
        LET recs == Val(records)
            bad == InvalidIndexes(recs)
        IN  /\ bad # {} => /\ saved_batches = <<>>
                           /\ returned = Some(FALSE)
                           /\ istage = "done"
            /\ Len(invalid_reports) = Cardinality(bad)
            /\ \A i \in bad :
                  LET k == Cardinality({j \in bad : j <= i})
                  IN  /\ invalid_reports[k]._id = recs[i]._id
                      /\ invalid_reports[k].message = validate_record(recs[i])[2]

C8_Witness ==
    /\ path = "process_metadata_file"
    /\ istage = "done"
    /\ IsSome(records)
    /\ Cardinality(InvalidIndexes(Val(records))) = 2
    /\ Len(invalid_reports) = 2
    /\ returned = Some(FALSE)

\* C9: no upsert call is issued for a document unless all of its records have
\* been built and have passed validation, on every ingestion path.
C9_NoUpsertBeforeValidation ==
    upsert_calls # <<>> =>
        /\ IsSome(records)
        /\ InvalidIndexes(Val(records)) = {}

----------------------------------------------------------------------------
(* Properties of the upsert dispatcher *)

CallsFor(b, t) ==
    {i \in 1..Len(upsert_calls) :
        /\ upsert_calls[i].batch_num = b
        /\ upsert_calls[i].index = Targets[t].index
        /\ upsert_calls[i].namespace = Targets[t].namespace}

\* C10: upsert_all_batches issues exactly one upsert call for every (batch,
\* target) pair whatever the outcome of earlier calls: no pair is ever called
\* twice (no retry), a failed call is counted as failed, and when the loops
\* are over every pair has been called once with that batch's records.
C10_OneCallPerBatchAndTarget ==
    /\ \A b \in 1..Len(batch_files) : \A t \in 1..Len(Targets) :
          /\ Cardinality(CallsFor(b, t)) <= 1
          /\ \A i \in CallsFor(b, t) : upsert_calls[i].records = batch_files[b]
    /\ failed_operations =
          Cardinality({i \in 1..Len(upsert_calls) : ~upsert_calls[i].ok})
    /\ dstage \in {"summary", "done"} =>
          /\ Len(upsert_calls) = Len(batch_files) * Len(Targets)
          /\ \A b \in 1..Len(batch_files) : \A t \in 1..Len(Targets) :
                Cardinality(CallsFor(b, t)) = 1

C10_Witness ==
    /\ dstage = "done"
    /\ Len(batch_files) = 2
    /\ ~upsert_calls[1].ok
    /\ failed_operations = 3
    /\ Len(upsert_calls) = 8

\* C11: when upsert_all_batches finishes, the successful and the failed
\* operations add up to |batches| x |targets|, the targets being the 4 pairs
\* {dense, sparse} x {doc namespace, global}, and it returns True exactly when
\* every (batch, target) call succeeded.
C11_CountsAndCompletion ==
    dstage = "done" =>
        /\ successful_operations + failed_operations
              = Len(batch_files) * Len(Targets)
        /\ Len(Targets) = 4
        /\ Range(Targets) =
              {[index |-> i, namespace |-> n] :
                  i \in {DENSE_INDEX, SPARSE_INDEX},
                  n \in {DocNamespace(DispatchPdfId), GLOBAL_NAMESPACE}}
        /\ successful_operations =
              Cardinality({i \in 1..Len(upsert_calls) : upsert_calls[i].ok})
        /\ IsSome(dispatch_result)
        /\ Val(dispatch_result) <=>
              \A b \in 1..Len(batch_files) : \A t \in 1..Len(Targets) :
                  \E i \in CallsFor(b, t) : upsert_calls[i].ok

C11_Witness ==
    /\ dstage = "done"
    /\ Len(batch_files) = 2
    /\ successful_operations = 7
    /\ failed_operations = 1
    /\ dispatch_result = Some(FALSE)

----------------------------------------------------------------------------
(* Properties of the rerank stage and of the merge order *)

DescendingByScore(list) ==
    \A i, j \in 1..Len(list) : i < j => list[i]._score >= list[j]._score

\* C12 (as stated): when the merged set is non-empty, the reranker is called
\* with exactly the first min(rerank_top_n, |merged|) merged results, in
\* descending fused-score order, and with the original query text; no merged
\* result beyond that prefix is passed.
C12_RerankGetsTopPrefixOnly ==
    \A i \in 1..Len(rerank_calls) :
        Val(merged) # <<>> =>
            /\ rerank_calls[i].query = query
            /\ rerank_calls[i].documents =
                  SubSeq(Val(merged), 1, Min(rerank_top_n, Len(Val(merged))))
            /\ DescendingByScore(rerank_calls[i].documents)

\* C12 (amended): when the merged set is non-empty, the reranker is called
\* once, with the original query text and with all merged results in
\* descending fused-score order; the limit is passed as top_n, which is
\* min(rerank_top_n, |merged|) in cascading_search and rerank_top_n in
\* hybrid_search, so the search returns at most min(rerank_top_n, |merged|)
\* results, any of the merged results among them.
C12_RerankGetsAllMerged ==
    (IsSome(merged) /\ Val(merged) # <<>>) =>
        /\ Len(rerank_calls) <= 1
        /\ stage \in {"returned", "raised"} => Len(rerank_calls) = 1
        /\ \A i \in 1..Len(rerank_calls) :
              /\ rerank_calls[i].query = query
              /\ rerank_calls[i].documents = Val(merged)
              /\ DescendingByScore(rerank_calls[i].documents)
              /\ rerank_calls[i].top_n =
                    IF variant = "cascading"
                    THEN Min(rerank_top_n, Len(Val(merged)))
                    ELSE rerank_top_n
        /\ IsSome(final_results) =>
              /\ Len(Val(final_results)) <= Min(rerank_top_n, Len(Val(merged)))
              /\ Range(Val(final_results)) \subseteq Range(Val(merged))

C12_Witness ==
    /\ stage = "returned"
    /\ rerank_top_n = 1
    /\ Len(Val(merged)) = 2
    /\ Val(merged)[1]._score > Val(merged)[2]._score
    /\ Len(rerank_calls) = 1
    /\ Len(rerank_calls[1].documents) = 2
    /\ final_results = Some(<<Val(merged)[2]>>)

\* The ids of the id map in insertion order: the dense ids in dense-list order,
\* then the ids found in the sparse list only, in sparse-list order.
RECURSIVE FirstOccurrences(_, _)
FirstOccurrences(seen, list) ==
    IF list = <<>> THEN seen
    ELSE FirstOccurrences(
            IF \E k \in 1..Len(seen) : seen[k] = Head(list)._id
            THEN seen ELSE Append(seen, Head(list)._id),
            Tail(list))

InsertionOrder(d, s) == FirstOccurrences(FirstOccurrences(<<>>, d), s)

PositionIn(ids, id) == CHOOSE k \in 1..Len(ids) : ids[k] = id

\* C13: the merge output is in descending order of fused score, results with
\* equal fused score keep the insertion order of the id map, and dense hits
\* [a:0.9, b:0.5] with sparse hits [a:0.7, c:0.8] give [a:0.8, c:0.8, b:0.5].
C13_MergeOrderAndTies ==
    IsSome(merged) =>
        LET m == Val(merged)
            order == InsertionOrder(Val(dense_results), Val(sparse_results))
        IN  /\ \A i, j \in 1..Len(m) : i < j =>
                  \/ m[i]._score > m[j]._score
                  \/ /\ m[i]._score = m[j]._score
                     /\ PositionIn(order, m[i]._id) < PositionIn(order, m[j]._id)
            /\ (Val(dense_results) = ExampleDenseHits
                  /\ Val(sparse_results) = ExampleSparseHits) =>
                  /\ [k \in 1..Len(m) |-> m[k]._id] = <<"a", "c", "b">>
                  /\ [k \in 1..Len(m) |-> m[k]._score] =
                        <<8 * ScoreUnit, 8 * ScoreUnit, 5 * ScoreUnit>>

C13_Witness ==
    /\ IsSome(merged)
    /\ dense_hits = ExampleDenseHits
    /\ sparse_hits = ExampleSparseHits
    /\ Len(Val(merged)) = 3
    /\ Val(merged)[1]._score = Val(merged)[2]._score

\* The merged set: the ids with their fused scores.
MergedSet(m) == {<<m[k]._id, m[k]._score>> : k \in 1..Len(m)}

----------------------------------------------------------------------------
(* Properties of record validation *)

\* The field holding the record id: "id" for pinecone_batch_upsert, "_id" for
\* the other validators.
IdField == IF validator = "pinecone_batch_upsert" THEN "id" ELSE "_id"

\* C15: record validation accepts a record only if its id is present and
\* non-empty, its content is present and non-empty after trimming whitespace,
\* its type is deck_metadata or slide and, when the type is slide, the
\* slide_number and keywords attributes are present.
C15_ValidatorChecksEveryRule ==
    accepted = Some(TRUE) =>
        /\ IdField \in DOMAIN candidate
        /\ candidate[IdField] # <<>>
        /\ "content" \in DOMAIN candidate
        /\ Strip(candidate.content, Whitespace) # <<>>
        /\ "type" \in DOMAIN candidate
        /\ candidate.type \in {"deck_metadata", "slide"}
        /\ candidate.type = "slide" =>
              {"slide_number", "keywords"} \subseteq DOMAIN candidate

----------------------------------------------------------------------------
(* Properties of slides with missing fields *)

\* The slides of the document whose summary is missing or empty.
SlidesWithoutSummary ==
    {i \in 1..Len(document.slide_data) :
        ~Truthy(Get(document.slide_data[i], "slide_summary", <<>>))}

\* C16: a slide whose summary is missing or empty never yields an accepted
\* record: its record is invalid and the document is rejected (nothing is
\* saved or upserted), even when the slide has raw content, keywords or a
\* layout label.
C16_SlideWithoutSummaryRejected ==
    SlidesWithoutSummary # {} =>
        /\ IsSome(records) =>
              \A i \in SlidesWithoutSummary :
                  ~validate_record(Val(records)[i + 1])[1]
        /\ saved_batches = <<>>
        /\ returned # Some(TRUE)
        /\ upsert_calls = <<>>

\* C17: if any slide of the document lacks slide_number, record building
\* fails for the whole document: no record sequence is returned (not even
\* the records of the slides before the malformed one), no batch file is
\* written and no upsert is issued.
C17_MissingSlideNumberIsFatal ==
    LacksSlideNumber(document.slide_data) =>
        /\ records = None
        /\ invalid_reports = <<>>
        /\ saved_batches = <<>>
        /\ upsert_calls = <<>>
        /\ istage \in {"transform", "build", "done", "raised"}
        /\ istage = "done" => returned = Some(FALSE)
        /\ istage = "raised" => returned = None

C17_Witness ==
    /\ path = "process_metadata_file"
    /\ istage = "done"
    /\ Len(document.slide_data) = 2
    /\ "slide_number" \in DOMAIN document.slide_data[1]
    /\ "slide_number" \notin DOMAIN document.slide_data[2]
    /\ returned = Some(FALSE)

----------------------------------------------------------------------------
(* Properties of batching with a size that is not positive *)

\* C18: batching with a max_size of zero or less fails with an error; it
\* does not return a batch list.
C18_NonPositiveBatchSizeFails ==
    batch_size <= 0 =>
        /\ bstage # "returned"
        /\ batches = None

----------------------------------------------------------------------------
(* Properties of sanitize_id *)

\* The pipeline as it is specified: the extension is stripped; whitespace
\* and ( ) [ ] - become underscores; any other character that is not ASCII
\* alphanumeric or underscore is deleted; runs of underscores are collapsed;
\* leading and trailing underscores are stripped; the result is lowercased.
SpecifiedPipeline(text) ==
    LET t0 == IF EndsWith(text, PdfSuffix)
              THEN SubSeq(text, 1, Len(text) - 4) ELSE text
        c1 == [i \in 1..Len(t0) |->
                 IF t0[i] \in Whitespace \cup {"(", ")", "[", "]", "-"}
                 THEN "_" ELSE t0[i]]
        c2 == SelectSeq(c1, LAMBDA c : IsAscii(c) /\ (IsAlnum(c) \/ c = "_"))
    IN  Lower(Strip(CollapseUnderscores(c2), {"_"}))

\* C19: for every input name, sanitize_id returns the result of the
\* specified pipeline.
C19_SanitizeFollowsPipeline ==
    IsSome(san_output) => Val(san_output) = SpecifiedPipeline(san_input)

\* C20: sanitize_id(sanitize_id(x)) = sanitize_id(x) for every x whose
\* sanitization does not take the timestamp fallback.
C20_SanitizeIdempotent ==
    (IsSome(san_again) /\ ~NeedsFallbackId(Val(san_output))) =>
        Val(san_again) = Val(san_output)

C20_Witness ==
    /\ san_stage = "again"
    /\ san_input = <<"B", Hangul, " ", "1">> \o PdfSuffix
    /\ san_output = Some(<<"b", "_", "1">>)
    /\ san_again = san_output

----------------------------------------------------------------------------
(* Properties of the document id *)

\* C21: two documents with different filenames never receive the same
\* document id, so neither their record ids nor their doc:<document_id>
\* namespaces coincide.
C21_DocumentIdUnique ==
    (corpus_stage = "done" /\ corpus_filenames[1] # corpus_filenames[2]) =>
        /\ corpus_ids[1] # corpus_ids[2]
        /\ DocNamespace(corpus_ids[1]) # DocNamespace(corpus_ids[2])
        /\ corpus_ids[1] \o <<"_meta">> # corpus_ids[2] \o <<"_meta">>

\* C22: when sanitizing the document's filename yields an empty key, the
\* record builder takes an identifier built from the current time to the
\* second, signals a warning and goes on to build the document's N + 1
\* records with that identifier.
C22_EmptyKeyTakesTimestampFallback ==
    (path = "process_metadata_file"
       /\ sanitize_id(document.deck_metadata.filename) = <<>>
       /\ ~LacksSlideNumber(document.slide_data)) =>
        /\ istage # "transform" =>
              /\ IsSome(records)
              /\ fallback_warned
        /\ IsSome(records) =>
              /\ Len(Val(records)) = Len(document.slide_data) + 1
              /\ \E now \in Timestamps :
                    /\ \A i \in 1..Len(Val(records)) :
                          Val(records)[i].pdf_id = <<"doc_", now>>
                    /\ Val(records)[1]._id = <<"doc_", now, "_meta">>
                    /\ \A i \in 1..Len(document.slide_data) :
                          Val(records)[i + 1]._id =
                              <<"doc_", now, "_slide_">>
                                 \o Pad3(document.slide_data[i].slide_number)

C22_Witness ==
    /\ path = "process_metadata_file"
    /\ document.deck_metadata.filename = HangulFilename
    /\ Len(document.slide_data) = 2
    /\ IsSome(records)
    /\ Len(Val(records)) = 3
    /\ fallback_warned
    /\ Val(records)[1].pdf_id = <<"doc_", "20250101_000001">>

\* "db_insurance_2025"
ExampleId ==
    <<"d", "b", "_", "i", "n", "s", "u", "r", "a", "n", "c", "e", "_",
      "2", "0", "2", "5">>

\* n written with at least 3 digits, zero-padded.
ThreeDigits(n) ==
    <<DigitChars[((n \div 100) % 10) + 1], DigitChars[((n \div 10) % 10) + 1],
      DigitChars[(n % 10) + 1]>>

\* C23: the deck record's id is <document_id>_meta and the id of the record
\* of a slide with slide_number n is <document_id>_slide_<n on 3 digits>,
\* the document_id being the sanitized filename; "DB (Insurance) 2025.pdf"
\* with slides 1 and 2 gives db_insurance_2025_meta,
\* db_insurance_2025_slide_001 and db_insurance_2025_slide_002, in order.
C23_RecordIdFormat ==
    (path = "process_metadata_file" /\ IsSome(records)) =>
        LET recs == Val(records)
            slides == document.slide_data
            name == document.deck_metadata.filename
        IN  /\ sanitize_id(name) # <<>> =>
                  \A i \in 1..Len(recs) : recs[i].pdf_id = sanitize_id(name)
            /\ recs[1]._id = recs[1].pdf_id \o <<"_meta">>
            /\ \A i \in 1..Len(slides) :
                  /\ slides[i].slide_number < 1000
                  /\ recs[i + 1]._id =
                        recs[1].pdf_id \o <<"_slide_">>
                           \o ThreeDigits(slides[i].slide_number)
            /\ (name = ExampleFilename
                  /\ [i \in 1..Len(slides) |-> slides[i].slide_number] = <<1, 2>>)
                  => [i \in 1..Len(recs) |-> recs[i]._id] =
                        << ExampleId \o <<"_meta">>,
                           ExampleId \o <<"_slide_", "0", "0", "1">>,
                           ExampleId \o <<"_slide_", "0", "0", "2">> >>

C23_Witness ==
    /\ path = "process_metadata_file"
    /\ IsSome(records)
    /\ document.deck_metadata.filename = ExampleFilename
    /\ Len(document.slide_data) = 2
    /\ document.slide_data[1].slide_number = 1
    /\ document.slide_data[2].slide_number = 2
    /\ Val(records)[3]._id = ExampleId \o <<"_slide_", "0", "0", "2">>

----------------------------------------------------------------------------
(* Properties of the order of the dispatcher's calls *)

\* The position in the targets list of the target a call went to.
TargetOf(call) ==
    CHOOSE t \in 1..Len(Targets) :
        /\ Targets[t].index = call.index
        /\ Targets[t].namespace = call.namespace

\* C24: upsert_all_batches issues its calls target-major: the targets are
\* visited in the order dense/doc, dense/global, sparse/doc, sparse/global,
\* the calls of one target are contiguous and go through the batches in
\* ascending order, and no call for a later target precedes a call for an
\* earlier one.
C24_CallsAreTargetMajor ==
    /\ [t \in 1..Len(Targets) |-> <<Targets[t].index, Targets[t].namespace>>] =
          << <<DENSE_INDEX, DocNamespace(DispatchPdfId)>>,
             <<DENSE_INDEX, GLOBAL_NAMESPACE>>,
             <<SPARSE_INDEX, DocNamespace(DispatchPdfId)>>,
             <<SPARSE_INDEX, GLOBAL_NAMESPACE>> >>
    /\ \A k \in 1..Len(upsert_calls) :
          /\ TargetOf(upsert_calls[k]) = ((k - 1) \div Len(batch_files)) + 1
          /\ upsert_calls[k].batch_num = ((k - 1) % Len(batch_files)) + 1
    /\ \A i, j \in 1..Len(upsert_calls) : i < j =>
          \/ TargetOf(upsert_calls[i]) < TargetOf(upsert_calls[j])
          \/ /\ TargetOf(upsert_calls[i]) = TargetOf(upsert_calls[j])
             /\ upsert_calls[i].batch_num < upsert_calls[j].batch_num

C24_Witness ==
    /\ dstage = "done"
    /\ Len(batch_files) = 2
    /\ Len(upsert_calls) = 8
    /\ TargetOf(upsert_calls[2]) = 1
    /\ upsert_calls[2].batch_num = 2
    /\ TargetOf(upsert_calls[3]) = 2
    /\ upsert_calls[3].batch_num = 1
    /\ ~upsert_calls[2].ok

----------------------------------------------------------------------------
(* Properties of the merge: attributes and symmetry *)

\* The first hit of the list that carries the id.
FirstWith(list, id) ==
    list[CHOOSE i \in 1..Len(list) :
            /\ list[i]._id = id
            /\ \A j \in 1..(i - 1) : list[j]._id # id]

\* C25: when a sparse hit's id is already present from the dense list, the
\* merge changes only that result's score: content and attributes stay those
\* of the dense hit; a sparse hit whose id is absent is inserted as a new
\* result with its own content, score and attributes.
C25_MergeKeepsDenseAttributes ==
    IsSome(merged) =>
        LET d == Val(dense_results)
            s == Val(sparse_results)
            m == Val(merged)
        IN  \A k \in 1..Len(m) :
              IF HasKey(d, m[k]._id)
              THEN /\ m[k].content = FirstWith(d, m[k]._id).content
                   /\ m[k].attrs = FirstWith(d, m[k]._id).attrs
                   /\ m[k].content = "dense"
              ELSE /\ m[k].content = FirstWith(s, m[k]._id).content
                   /\ m[k].attrs = FirstWith(s, m[k]._id).attrs
                   /\ m[k].content = "sparse"
                   /\ Occurrences(s, m[k]._id) = 1 =>
                         m[k]._score = FirstWith(s, m[k]._id)._score

C25_Witness ==
    /\ IsSome(merged)
    /\ Len(Val(merged)) = 2
    /\ \E k \in 1..2 :
          /\ Occurrences(Val(dense_results), Val(merged)[k]._id) = 1
          /\ Occurrences(Val(sparse_results), Val(merged)[k]._id) = 1
          /\ Val(merged)[k]._score # ScoreIn(Val(dense_results), Val(merged)[k]._id)
          /\ Val(merged)[k].attrs = "dense"
    /\ \E k \in 1..2 :
          /\ ~HasKey(Val(dense_results), Val(merged)[k]._id)
          /\ Val(merged)[k].attrs = "sparse"

----------------------------------------------------------------------------
(* Properties of the deck record's content *)

\* The label of the fourth line: "Executive Summary: " in
\* transform_to_pinecone_format, "Summary: " in deckbot_unified_index.
SummaryLabel ==
    IF path = "process_metadata_file" THEN "Executive Summary: " ELSE "Summary: "

\* C26: the deck record's content is always four labeled lines, filename,
\* industry, company and executive summary in that order, the line of an
\* omitted or empty field holding the label alone; so the content is not
\* empty and passes content validation for every document.
C26_DeckContentHasFourLines ==
    IsSome(records) =>
        LET meta == document.deck_metadata
            content == Val(records)[1].content
        IN  /\ Val(records)[1].type = "deck_metadata"
            /\ content =
                  <<"Filename: ">> \o Get(meta, "filename", <<>>)
                    \o <<"\n", "Industry: ">> \o Get(meta, "deck_industry", <<>>)
                    \o <<"\n", "Company: ">> \o Get(meta, "company_name", <<>>)
                    \o <<"\n", SummaryLabel>>
                    \o Get(meta, "executive_summary", <<>>)
            /\ Cardinality({i \in 1..Len(content) : content[i] = "\n"}) = 3
            /\ content # <<>>
            /\ validate_record(Val(records)[1])[1]

C26_Witness ==
    /\ path = "process_metadata_file"
    /\ IsSome(records)
    /\ DOMAIN document.deck_metadata = {"filename"}
    /\ document.slide_data = <<>>
    /\ invalid_reports = <<>>
    /\ returned = Some(TRUE)

----------------------------------------------------------------------------
(* Properties of ingest_pdf_metadata under ingest_bulk *)

\* The upsert calls made for the f-th file, in order.
CallsOfFile(f) == SelectSeq(upsert_calls, LAMBDA c : c.file = f)

\* The files the loop is done with that did not go through.
FilesThatFailed ==
    {f \in 1..(bulk_idx - 1) :
        \/ LacksSlideNumber(bulk_files[f].slide_data)
        \/ \E k \in 1..Len(CallsOfFile(f)) : ~CallsOfFile(f)[k].ok}

\* C27: ingest_pdf_metadata issues its four upserts in the order dense/doc,
\* sparse/doc, dense/global, sparse/global with no isolation between them:
\* if the k-th raises, the later ones are never issued, what the earlier
\* ones wrote stays in the index, and ingest_bulk counts the document as
\* failed and goes on with the remaining files.
C27_UpsertFailureStopsDocumentOnly ==
    /\ \A f \in 1..Len(bulk_files) :
          LET cs == CallsOfFile(f)
              doc_id == Stem(bulk_files[f].deck_metadata.filename)
              order == << <<DENSE_INDEX, DocNamespace(doc_id)>>,
                          <<SPARSE_INDEX, DocNamespace(doc_id)>>,
                          <<DENSE_INDEX, GLOBAL_NAMESPACE>>,
                          <<SPARSE_INDEX, GLOBAL_NAMESPACE>> >>
          IN  /\ Len(cs) <= 4
              /\ \A k \in 1..Len(cs) :
                    /\ <<cs[k].index, cs[k].namespace>> = order[k]
                    /\ cs[k].records = UnifiedRecords(bulk_files[f])
                    /\ ~cs[k].ok => k = Len(cs)
                    /\ cs[k].ok => Written(cs[k]) \subseteq index_store
    /\ bulk_idx >= 1 =>
          /\ Range(failed) = FilesThatFailed
          /\ Len(failed) = Cardinality(FilesThatFailed)
          /\ Len(ingested) + Len(failed) = bulk_idx - 1
    /\ bulk_stage = "done" => bulk_idx = Len(bulk_files) + 1

C27_Witness ==
    /\ bulk_stage = "done"
    /\ Len(bulk_files) = 2
    /\ Len(upsert_calls) = 6
    /\ Len(CallsOfFile(1)) = 2
    /\ ~upsert_calls[2].ok
    /\ failed = <<1>>
    /\ Len(ingested) = 1
    /\ Written(upsert_calls[1]) \subseteq index_store

RECURSIVE ValidSubsequence(_)
ValidSubsequence(recs) ==
    IF recs = <<>> THEN <<>>
    ELSE (IF batch_upsert_validate_record(Head(recs)) THEN <<Head(recs)>>
          ELSE <<>>) \o ValidSubsequence(Tail(recs))

\* C28: process_files drops each invalid record on its own and keeps the
\* valid ones in their loaded order: valid_records is exactly the valid
\* subsequence of the records loaded from all files.  It returns
\* success = False only when no loaded record is valid, and otherwise, for
\* a positive batch_size, returns success with batches whose concatenation
\* is that valid subsequence.
C28_InvalidRecordsDroppedIndividually ==
    LET loaded == Concat(json_files)
        valid == ValidSubsequence(loaded)
    IN  /\ pstage \in {"validated", "returned", "raised"}
               => valid_records = valid
        /\ pstage = "returned"
               => /\ IsSome(process_result)
                  /\ Val(process_result).success <=> valid # <<>>
                  /\ Val(process_result).records = Len(valid)
        /\ (pstage \in {"returned", "raised"} /\ chunk_size_arg > 0
                /\ valid # <<>>)
               => /\ pstage = "returned"
                  /\ Concat(Val(process_result).batches_data) = valid
                  /\ Val(process_result).batches
                         = Len(Val(process_result).batches_data)

\* Two files, an invalid record between two valid ones, two batches.
C28_Witness ==
    /\ pstage = "returned"
    /\ Len(json_files) = 2
    /\ Len(all_records) = 3
    /\ batch_upsert_validate_record(all_records[1])
    /\ ~batch_upsert_validate_record(all_records[2])
    /\ batch_upsert_validate_record(all_records[3])
    /\ all_records[1] # all_records[3]
    /\ chunk_size_arg = 1
    /\ IsSome(process_result)
    /\ Val(process_result).success
    /\ Val(process_result).batches_data
           = << <<all_records[1]>>, <<all_records[3]>> >>

NoRepeatedId(list) ==
    \A i, j \in 1..Len(list) : list[i]._id = list[j]._id => i = j

DocIn(m, id) == m[CHOOSE k \in 1..Len(m) : m[k]._id = id]

\* C29: for a dense and a sparse hit list without repeated ids, merging
\* (dense, sparse) and merging (sparse, dense) give the same set of
\* (id, fused score) pairs, each id once.  A result for an id found in one
\* list only is the same document in both; two results with different fused
\* scores come in the same relative order in both.
C29_MergeSymmetricInIdsAndScores ==
    (IsSome(swap_backward) /\ NoRepeatedId(swap_dense)
          /\ NoRepeatedId(swap_sparse)) =>
        LET f == Val(swap_forward)
            b == Val(swap_backward)
            shared == IdsOf(swap_dense) \cap IdsOf(swap_sparse)
        IN  /\ MergedSet(f) = MergedSet(b)
            /\ NoRepeatedId(f) /\ NoRepeatedId(b)
            /\ Len(f) = Len(b)
            /\ \A id \in IdsOf(f) \ shared : DocIn(f, id) = DocIn(b, id)
            /\ \A id \in shared :
                  /\ DocIn(f, id).content = "dense"
                  /\ DocIn(b, id).content = "sparse"
            /\ \A i, j \in 1..Len(f) :
                  (i < j /\ f[i]._score # f[j]._score) =>
                      PositionIn([k \in 1..Len(b) |-> b[k]._id], f[i]._id)
                        < PositionIn([k \in 1..Len(b) |-> b[k]._id], f[j]._id)

\* An id in both lists with different scores, another id in one list only,
\* and two merges that differ as sequences.
C29_Witness ==
    /\ swap_stage = "done"
    /\ NoRepeatedId(swap_dense) /\ NoRepeatedId(swap_sparse)
    /\ Len(swap_dense) = 2
    /\ \E id \in IdsOf(swap_dense) \cap IdsOf(swap_sparse) :
          ScoreIn(swap_dense, id) # ScoreIn(swap_sparse, id)
    /\ IdsOf(swap_dense) # IdsOf(swap_sparse)
    /\ Val(swap_forward) # Val(swap_backward)
    /\ MergedSet(Val(swap_forward)) = MergedSet(Val(swap_backward))

\* An id made of a-z, 0-9 and single underscores between them.
CleanId(id) ==
    /\ Range(id) \subseteq Range(AsciiLower) \cup Range(DigitChars) \cup {"_"}
    /\ id # <<>> => (id[1] # "_" /\ id[Len(id)] # "_")
    /\ \A i \in 1..(Len(id) - 1) : ~(id[i] = "_" /\ id[i + 1] = "_")

\* C30: whatever string sanitize_id is given, what it returns holds only
\* a-z, 0-9 and underscore, neither starts nor ends with an underscore and
\* has no two underscores in a row; so it is never "_", and the fallback
\* test of transform_metadata_to_records is true of it only when it is "".
C30_SanitizedIdIsClean ==
    /\ IsSome(san_output) =>
          /\ CleanId(Val(san_output))
          /\ Val(san_output) # <<"_">>
          /\ NeedsFallbackId(Val(san_output)) <=> Val(san_output) = <<>>
    /\ IsSome(san_again) =>
          /\ CleanId(Val(san_again))
          /\ NeedsFallbackId(Val(san_again)) <=> Val(san_again) = <<>>

\* An upper-case letter, brackets, a non-ASCII character, spaces and a
\* hyphen in one name.
C30_Witness ==
    /\ san_stage = "returned"
    /\ san_input = <<"B", "(", Hangul, ")", " ", "-", " ", "1">>
    /\ Val(san_output) = <<"b", "_", "1">>

============================================================================
